---- MODULE Spec2Model ----
(***************************************************************************)
(* dontbug: replay engine (cmd/replay.go).  The dispatcher goroutine reads  *)
(* DBGP commands from the IDE socket and drives gdb through gdb/mi; the     *)
(* operator goroutine reads lines from stdin.  gdb (with rr below it) is    *)
(* the environment: it answers every gdb/mi command with a result class.    *)
(***************************************************************************)
EXTENDS Integers, Sequences, FiniteSets, TLC

\* ------------------------------------------------------------------ bounds
\* Largest -i sequence number the IDE sends.
MaxSeq == 1
\* Largest breakpoint number gdb hands out ("1" and "2" are used at startup).
MaxBpId == 3
\* Most gdb/mi commands of one session that gdb fails: it answers with class
\* "error", or the transport breaks and Send returns an error.
MaxFaults == 1
\* Number of script locations in the recorded execution.
NumLocs == 2

\* Lines of rr's output before it ends.
MaxRrLines == 3

\* ------------------------------------------------------- program constants
dontbugCstepLineNumTemp == 92
dontbugCstepLineNum == 95
dontbugMasterBp == "1"

breakpointTypeLine == "line"
breakpointTypeInternal == "internal"
breakpointStateDisabled == "disabled"
breakpointStateEnabled == "enabled"
statusStarting == "starting"
reasonOk == "ok"

\* ------------------------------------------------------------ Go helpers
Range(s) == {s[i] : i \in DOMAIN s}

\* The ways strconv.Atoi accepts the number n written: plain, with a plus
\* sign, with a leading zero.
Numerals(n) == {ToString(n), "+" \o ToString(n), "0" \o ToString(n)}

\* strconv.Atoi on the tokens the model uses: the decimal numerals of 0..99
\* convert, every other token is an error (-1 stands for err != nil).
Atoi(s) ==
    IF \E n \in 0..99 : s \in Numerals(n)
    THEN CHOOSE n \in 0..99 : s \in Numerals(n)
    ELSE -1

\* fmt.Sprintf("%v", n) for an int.
Itoa(n) == ToString(n)

\* The argument that follows flag f in a token list, "" when f is absent.
ArgAfter(args, f) ==
    IF \E i \in 1..(Len(args) - 1) : args[i] = f
    THEN args[(CHOOSE i \in 1..(Len(args) - 1) : args[i] = f) + 1]
    ELSE ""

\* All orders in which the elements of a set can be listed (Go iterates a
\* map in an unspecified order).
Orders(S) ==
    {q \in [1..Cardinality(S) -> S] : \A i, j \in 1..Cardinality(S) : q[i] = q[j] => i = j}

\* ------------------------------------------- the recorded execution (rr)
\* Positions of the replay: PosBegin is the start of the recording, PosStartup
\* the halt at dontbug.c:92, 1..NumLocs the script locations (each passes
\* dontbug.c:95 and the file's line of dontbug_break.c), PosEnd the exit.
PosBegin == 0 - 1
PosStartup == PosBegin + 1
PosEnd == NumLocs + 1
Positions == PosBegin..PosEnd

EntryFileChars == <<"a", ".", "p">>
EntryFileUri == "file:///a.p"
\* The map constructBreakpointLocMap built: uri -> line of dontbug_break.c.
BpLocMap == [u \in {EntryFileUri} |-> 500]

LineAt(p) == IF p \in 1..NumLocs THEN 16 + p ELSE 0
LevelAt(p) == IF p \in 1..NumLocs THEN (p + 1) % 2 ELSE 0

\* ------------------------------------------------------------ gdb (NDBG)
\* A gdb breakpoint as created by -break-insert.
GdbBreakpoint(args) ==
    [enabled |-> ~("-d" \in Range(args)),
     temp    |-> "-t" \in Range(args),
     source  |-> ArgAfter(args, "--source"),
     line    |-> ArgAfter(args, "--line"),
     cond    |-> ArgAfter(args, "-c")]

\* gdb evaluates the condition of breakpoint b at position p.
CondHolds(b, p) ==
    \/ b.cond = ""
    \/ \E n \in 0..99 : b.cond = "lineno == " \o ToString(n) /\ LineAt(p) = n
    \/ \E n \in 0..99 : b.cond = "level <= " \o ToString(n) /\ LevelAt(p) <= n

\* Breakpoint b halts execution that arrives at position p.
Triggers(b, p) ==
    /\ b.enabled
    /\ \/ /\ p = PosStartup
          /\ b.source = "dontbug.c"
          /\ b.line = ToString(dontbugCstepLineNumTemp)
       \/ /\ p \in 1..NumLocs
          /\ b.source = "dontbug.c"
          /\ b.line = ToString(dontbugCstepLineNum)
          /\ CondHolds(b, p)
       \/ /\ p \in 1..NumLocs
          /\ b.source = "dontbug_break.c"
          /\ b.line = ToString(BpLocMap[EntryFileUri])
          /\ CondHolds(b, p)

HaltsAt(bps, p) == \E id \in DOMAIN bps : Triggers(bps[id], p)

\* Where -exec-continue [--reverse] from position p halts.
ContinueTo(bps, p, rev) ==
    IF rev
    THEN IF \E q \in Positions : q < p /\ HaltsAt(bps, q)
         THEN CHOOSE q \in Positions :
                  /\ q < p /\ HaltsAt(bps, q)
                  /\ \A r \in Positions : (r < p /\ HaltsAt(bps, r)) => r <= q
         ELSE PosBegin
    ELSE IF \E q \in Positions : q > p /\ HaltsAt(bps, q)
         THEN CHOOSE q \in Positions :
                  /\ q > p /\ HaltsAt(bps, q)
                  /\ \A r \in Positions : (r > p /\ HaltsAt(bps, r)) => r >= q
         ELSE PosEnd

\* Restriction of a function to a subset of its domain.
Restrict(f, S) == [x \in S |-> f[x]]
EmptyMap == [x \in {} |-> x]

\* A temporary breakpoint is deleted by gdb when execution halts on it.
AfterHalt(bps, p) ==
    Restrict(bps, {id \in DOMAIN bps : ~(bps[id].temp /\ Triggers(bps[id], p))})

\* The ids named by the arguments of -break-enable / -break-disable /
\* -break-delete; no id at all means every breakpoint.
NamedIds(bps, args) ==
    IF Range(args) \ {""} = {} THEN DOMAIN bps ELSE Range(args) \cap DOMAIN bps

\* C string literal as gdb prints a char*: 0x1 "text", with " escaped.
GdbString(chars) == <<"0", "x", "1", " ", "\"">> \o chars \o <<"\"">>

\* Text the in-interpreter helper dontbug_xdebug_cmd returns: <r a="1">
XdebugReplyChars == <<"<", "r", " ", "a", "=", "\\", "\"", "1", "\\", "\"", ">">>

\* Value of data-evaluate-expression at position p.
GdbValue(expr, p) ==
    CASE expr = "filename" -> GdbString(EntryFileChars)
      [] expr = "lineno" -> ToString(LineAt(p))
      [] expr = "level" -> ToString(LevelAt(p))
      [] OTHER -> GdbString(XdebugReplyChars)

\* One possible answer of gdb to a command: a transport error (Send returns
\* err), or a result of class "error" that changes nothing, or class "done"
\* with the command's effect.  g is gdb's state [bps, next, pos, exit, faults].
GdbFailures(g) ==
    IF g.faults < MaxFaults
    THEN {[err |-> TRUE, class |-> "", value |-> "",
           gdb |-> [g EXCEPT !.faults = g.faults + 1]],
          [err |-> FALSE, class |-> "error", value |-> "",
           gdb |-> [g EXCEPT !.faults = g.faults + 1]]}
    ELSE {}

GdbDone(g, c) ==
    CASE c.op = "break-insert" ->
           [err |-> FALSE, class |-> "done", value |-> ToString(g.next),
            gdb |-> [g EXCEPT !.bps = [id \in DOMAIN g.bps \cup {ToString(g.next)} |->
                                          IF id \in DOMAIN g.bps THEN g.bps[id]
                                          ELSE GdbBreakpoint(c.args)],
                              !.next = g.next + 1]]
      [] c.op = "break-enable" ->
           [err |-> FALSE, class |-> "done", value |-> "",
            gdb |-> [g EXCEPT !.bps = [id \in DOMAIN g.bps |->
                                          IF id \in NamedIds(g.bps, c.args)
                                          THEN [g.bps[id] EXCEPT !.enabled = TRUE]
                                          ELSE g.bps[id]]]]
      [] c.op = "break-disable" ->
           [err |-> FALSE, class |-> "done", value |-> "",
            gdb |-> [g EXCEPT !.bps = [id \in DOMAIN g.bps |->
                                          IF id \in NamedIds(g.bps, c.args)
                                          THEN [g.bps[id] EXCEPT !.enabled = FALSE]
                                          ELSE g.bps[id]]]]
      [] c.op = "break-delete" ->
           [err |-> FALSE, class |-> "done", value |-> "",
            gdb |-> [g EXCEPT !.bps = Restrict(g.bps, DOMAIN g.bps \ NamedIds(g.bps, c.args))]]
      [] c.op = "exec-continue" ->
           [err |-> FALSE, class |-> "done", value |-> "",
            gdb |-> [g EXCEPT !.pos = ContinueTo(g.bps, g.pos, "--reverse" \in Range(c.args)),
                              !.bps = AfterHalt(g.bps,
                                         ContinueTo(g.bps, g.pos, "--reverse" \in Range(c.args)))]]
      [] c.op = "data-evaluate-expression" ->
           [err |-> FALSE, class |-> "done", value |-> GdbValue(c.args[1], g.pos), gdb |-> g]
      [] OTHER ->
           [err |-> FALSE, class |-> "done", value |-> "", gdb |-> g]

GdbOutcomes(g, c) == GdbFailures(g) \cup {GdbDone(g, c)}

\* ------------------------------------------------- gdb string responses
IndexOfQuote(s) ==
    IF \E i \in 1..Len(s) : s[i] = "\""
    THEN CHOOSE i \in 1..Len(s) : s[i] = "\"" /\ \A j \in 1..(i - 1) : s[j] # "\""
    ELSE 0

LastIndexOfQuote(s) ==
    IF \E i \in 1..Len(s) : s[i] = "\""
    THEN CHOOSE i \in 1..Len(s) : s[i] = "\"" /\ \A j \in (i + 1)..Len(s) : s[j] # "\""
    ELSE 0

\* unquoteGdbStringResult: \" becomes ", every other character is copied.
\* The loop reads input[i + 1] for a backslash in the last place: a panic.
RECURSIVE unquoteFrom(_, _)
unquoteFrom(input, i) ==
    IF i > Len(input) THEN <<>>
    ELSE IF input[i] = "\\" /\ i < Len(input) /\ input[i + 1] = "\""
         THEN <<"\"">> \o unquoteFrom(input, i + 2)
         ELSE <<input[i]>> \o unquoteFrom(input, i + 1)

unquoteGdbStringResult(input) == unquoteFrom(input, 1)

unquotePanics(input) == Len(input) > 0 /\ input[Len(input)] = "\\"

\* parseGdbStringResponse: [ok, value].
parseGdbStringResponse(gdbResponse) ==
    IF \/ IndexOfQuote(gdbResponse) = LastIndexOfQuote(gdbResponse)
       \/ IndexOfQuote(gdbResponse) = 0
       \/ LastIndexOfQuote(gdbResponse) = 0
    THEN [ok |-> FALSE, panic |-> FALSE, value |-> <<>>]
    ELSE [ok |-> TRUE,
          panic |-> unquotePanics(
                        SubSeq(gdbResponse, IndexOfQuote(gdbResponse) + 1,
                               LastIndexOfQuote(gdbResponse) - 1)),
          value |-> unquoteGdbStringResult(
                        SubSeq(gdbResponse, IndexOfQuote(gdbResponse) + 1,
                               LastIndexOfQuote(gdbResponse) - 1))]

\* --------------------------------------------------------- DBGP commands
\* A command line is modelled by its strings.Fields: the list of its tokens.
RECURSIVE JoinSpace(_)
JoinSpace(tokens) ==
    IF Len(tokens) = 0 THEN ""
    ELSE IF Len(tokens) = 1 THEN tokens[1]
    ELSE tokens[1] \o " " \o JoinSpace(Tail(tokens))

\* v[1:] for the flag tokens of the model.
TrimDash(v) ==
    CASE v = "-i" -> "i" [] v = "-n" -> "n" [] v = "-v" -> "v"
      [] v = "-t" -> "t" [] v = "-f" -> "f" [] v = "-s" -> "s"
      [] OTHER -> "?"

\* Positions 2, 4, ... of the token list hold the flags.
FlagPlaces(components) == {k \in 2..Len(components) : k % 2 = 0}

\* parseCommand: a flag without a value indexes past the slice (panic); a
\* missing or non-numeric -i is fatal.  A later flag overwrites an earlier one.
parseCommand(components) ==
    LET places == FlagPlaces(components)
        keys == {TrimDash(components[k]) : k \in places}
        lastPlace(key) == CHOOSE k \in places :
                              /\ TrimDash(components[k]) = key
                              /\ \A j \in places : TrimDash(components[j]) = key => j <= k
        panic == Len(components) % 2 = 0
        flags == IF panic THEN EmptyMap
                 ELSE [key \in keys |-> components[lastPlace(key) + 1]]
        seqOk == ~panic /\ "i" \in keys /\ Atoi(flags["i"]) >= 0
    IN [ok |-> seqOk,
        Command |-> components[1],
        FullCommand |-> JoinSpace(components),
        Options |-> flags,
        Sequence |-> IF seqOk THEN Atoi(flags["i"]) ELSE 0]

SeqTokens == {ToString(n) : n \in 0..MaxSeq}

\* One command of each family of the switch, and one that is not implemented.
PlainCommands ==
    {"status", "step_into", "step_over", "eval", "property_get",
     "stop", "run"}

FeatureSetLines ==
    {<<"feature_set", "-i", s, "-n", n, "-v", "5">> :
        s \in SeqTokens, n \in {"max_depth", "language_name"}}

BreakpointSetLines ==
    {<<"breakpoint_set", "-i", s, "-t", "line", "-f", f, "-n", "18">> :
        s \in SeqTokens, f \in {EntryFileUri, "file:///zz.p"}}
    \cup {<<"breakpoint_set", "-i", s, "-t", "line", "-f", EntryFileUri, "-n", "18",
            "-s", "disabled">> : s \in SeqTokens}
    \cup {<<"breakpoint_set", "-i", s, "-t", "call">> : s \in SeqTokens}

MalformedLines == {<<"status">>, <<"status", "-i">>, <<"status", "-i", "x">>}

\* The command lines the IDE may send.
IdeCommands ==
    {<<c, "-i", s>> : c \in PlainCommands, s \in SeqTokens}
    \cup FeatureSetLines \cup BreakpointSetLines \cup MalformedLines

\* ------------------------------------------------------------ FeatureMap
initFeatureMap ==
    [language_supports_threads |-> [kind |-> "bool", Value |-> FALSE, ReadOnly |-> TRUE],
     language_name |-> [kind |-> "string", Value |-> "PHP", ReadOnly |-> TRUE],
     language_version |-> [kind |-> "string", Value |-> "7.0", ReadOnly |-> TRUE],
     encoding |-> [kind |-> "string", Value |-> "ISO-8859-1", ReadOnly |-> TRUE],
     protocol_version |-> [kind |-> "int", Value |-> 1, ReadOnly |-> TRUE],
     supports_async |-> [kind |-> "bool", Value |-> FALSE, ReadOnly |-> TRUE],
     breakpoint_types |-> [kind |-> "string",
                           Value |-> "line call return exception conditional watch",
                           ReadOnly |-> TRUE],
     multiple_sessions |-> [kind |-> "bool", Value |-> FALSE, ReadOnly |-> FALSE],
     max_children |-> [kind |-> "int", Value |-> 64, ReadOnly |-> FALSE],
     max_data |-> [kind |-> "int", Value |-> 2048, ReadOnly |-> FALSE],
     max_depth |-> [kind |-> "int", Value |-> 1, ReadOnly |-> FALSE],
     extended_properties |-> [kind |-> "bool", Value |-> FALSE, ReadOnly |-> FALSE],
     show_hidden |-> [kind |-> "bool", Value |-> FALSE, ReadOnly |-> FALSE]]

\* Set without the ReadOnly check.
FeatureSetFatalWritable(feature, value) ==
    \/ FALSE
    \/ feature.kind = "bool" /\ value \notin {"0", "1"}
    \/ feature.kind = "int" /\ Atoi(value) < 0

\* FeatureBool.Set / FeatureInt.Set / FeatureString.Set: TRUE when Set calls
\* log.Fatal.
FeatureSetFatal(feature, value) ==
    \/ feature.ReadOnly
    \/ feature.kind = "bool" /\ value \notin {"0", "1"}
    \/ feature.kind = "int" /\ Atoi(value) < 0

\* Set storing another value than the one it is given.
FeatureSetOther(feature, value) ==
    CASE feature.kind = "bool" -> [feature EXCEPT !.Value = (value = "0")]
      [] feature.kind = "int" -> [feature EXCEPT !.Value = Atoi(value) + 1]
      [] OTHER -> [feature EXCEPT !.Value = value]

FeatureSet(feature, value) ==
    CASE feature.kind = "bool" -> [feature EXCEPT !.Value = (value = "1")]
      [] feature.kind = "int" -> [feature EXCEPT !.Value = Atoi(value)]
      [] OTHER -> [feature EXCEPT !.Value = value]

\* FeatureBool.String / FeatureInt.String / FeatureString.String.
FeatureString(feature) ==
    CASE feature.kind = "bool" -> IF feature.Value THEN "1" ELSE "0"
      [] feature.kind = "int" -> Itoa(feature.Value)
      [] OTHER -> feature.Value

stringToBreakpointType(t) ==
    IF t \in {"line", "call", "return", "exception", "conditional", "watch"}
    THEN [ok |-> TRUE, type |-> t]
    ELSE [ok |-> FALSE, type |-> ""]

\* ----------------------------------------------------------------- state
VARIABLES
    es,          \* DebugEngineState
    gdb,         \* gdb under rr: [bps, next, pos, exit]
    inflight,    \* gdb/mi commands sent and not yet answered
    proc,        \* "running", "exit0" (os.Exit(0)) or "fatal" (log.Fatal, panic)
    dpc,         \* where the dispatcher goroutine is
    dwait,       \* the dispatcher is inside gdbSession.Send
    req,         \* dbgpCmd of the request being handled
    dloc,        \* locals of the handler being run
    miLog,       \* gdb/mi commands the dispatcher sent for this request
    payload,     \* the reply the handler returned
    reverse,     \* the direction flag of debuggerIdeCmdLoop
    reverseSeen, \* the values of reverse a racing read may observe
    opc,         \* where the operator goroutine is
    stdin,       \* characters of standard input that Scanln left unread
    rrStart,     \* startReplayInRR: the reader of rr's output and the deadline
    recSession,  \* the record command: its listener and its Ctrl-C handler
    genCall,     \* the function of the generate command being evaluated
    hist         \* history: a command was accepted; progress of step, toggle, step

\* What a replay session does not touch once gdb is started.
outside == <<rrStart, recSession, genCall>>

\* The variables of a replay session.
session == <<es, gdb, inflight, proc, dpc, dwait, req, dloc, miLog, payload,
             reverse, reverseSeen, opc, stdin, hist>>

vars == <<session, outside>>

NoRequest == [ok |-> FALSE, Command |-> "", FullCommand |-> "", Options |-> EmptyMap,
              Sequence |-> 0]

\* Before startGdbAndInitDebugEngineState builds it there is no engine state.
NoEngineState ==
    [EntryFilePHP |-> <<>>, LastSequenceNum |-> 0, Status |-> "", Reason |-> "",
     FeatureMap |-> EmptyMap, Breakpoints |-> EmptyMap, SourceMap |-> EmptyMap]

\* reverse is the parameter of handleIdeRequest; flag, prePos, preTable,
\* preGdb and preEs record the direction flag, gdb's position, the enabled
\* breakpoints and the engine state at the moment the handler was called.
NoLocals == [reverse |-> FALSE, bpList |-> <<>>, result |-> <<>>, level |-> "",
             id |-> "", filename |-> <<>>, lineno |-> 0, disabled |-> FALSE,
             phpLineno |-> 0, flag |-> FALSE, prePos |-> 0, preTable |-> {},
             preGdb |-> {}, preEs |-> NoEngineState]

\* tOdd: the operator has typed an odd number of t lines; broke: a reply with
\* status "break" has been written.
NoHistory == [accepted |-> FALSE, phase |-> "", a |-> 0, tOdd |-> FALSE, broke |-> FALSE]

NoPayload == [command |-> ""]

\* rr has been started and its gdb endpoint read; no record command and no
\* generate command is running.
NoReplayStart ==
    [out |-> <<>>, line |-> <<>>, seen |-> TRUE, cancel |-> "closed", timer |-> "done"]

\* The record command is not running: no connection, no recording process.
NoRecordSession ==
    [wire |-> <<>>, pkts |-> 0, closed |-> TRUE, buf |-> <<>>, seq |-> 0,
     replies |-> <<>>, lpc |-> "off", hpc |-> "off", pty |-> 0,
     notify |-> FALSE, sigints |-> 0, rec |-> "off", chanClosed |-> FALSE]

\* No function of the generate command or of the framing is under evaluation.
NoCall == [fn |-> "", pc |-> "off", in |-> <<>>, out |-> <<>>, back |-> <<>>]

StartupLabels == {"start.bp1", "start.bp2", "start.set", "start.cont", "start.eval"}

\* The debugging session with the main goroutine at the place at and a gdb
\* that has already failed the given number of commands.
SessionAt(faults, at) ==
    /\ es = NoEngineState
    /\ gdb = [bps |-> EmptyMap, next |-> 1, pos |-> PosBegin, exit |-> "",
              faults |-> faults]
    /\ inflight = {}
    /\ proc = "running"
    /\ dpc = at
    /\ dwait = FALSE
    /\ req = NoRequest
    /\ dloc = NoLocals
    /\ miLog = <<>>
    /\ payload = NoPayload
    /\ reverse = FALSE
    /\ reverseSeen = {FALSE}
    /\ opc = "off"
    /\ stdin = <<>>
    /\ hist = NoHistory

\* The replay command with the main goroutine at the place at and with start
\* as the state of startReplayInRR.
BootAt(faults, at, start) ==
    /\ SessionAt(faults, at)
    /\ rrStart = start
    /\ recSession = NoRecordSession
    /\ genCall = NoCall

\* The process at the entry of startGdbAndInitDebugEngineState, with a gdb
\* that has already failed the given number of commands.
Boot(faults) == BootAt(faults, "start.bp1", NoReplayStart)

Init == Boot(0)

\* A session in which gdb answers every command with class "done".
InitNoFaults == Boot(MaxFaults)

\* ------------------------------------------------- dispatcher: plumbing
DRunning(at) == proc = "running" /\ dpc = at

\* sendGdbCommand up to the write of gdbSession.Send: the command is on its
\* way to gdb and the dispatcher blocks for the result.
sendGdbCommand(at, op, args) ==
    /\ DRunning(at)
    /\ ~dwait
    /\ inflight' = inflight \cup {[by |-> "dispatcher", op |-> op, args |-> args]}
    /\ dwait' = TRUE
    /\ miLog' = Append(miLog, [op |-> op, args |-> args])
    /\ UNCHANGED <<es, gdb, proc, dpc, req, dloc, payload, reverse, reverseSeen, opc, stdin, outside, hist>>

\* The dispatcher's outstanding command.
DCmd == CHOOSE c \in inflight : c.by = "dispatcher"

\* gdbSession.Send returns r to the dispatcher.
Answered(r) ==
    /\ gdb' = r.gdb
    /\ inflight' = inflight \ {DCmd}
    /\ dwait' = FALSE
    /\ UNCHANGED <<req, miLog, reverse, reverseSeen, opc, stdin, outside, hist>>

\* log.Fatal (or a panic) in the dispatcher.
Fatal == proc' = "fatal" /\ UNCHANGED <<es, dpc, dloc, payload>>

Goto(next) == dpc' = next /\ proc' = proc

\* A dispatcher step that sends nothing to gdb.
Local == UNCHANGED <<gdb, inflight, dwait, miLog, reverse, reverseSeen, opc, stdin, outside, hist>>

SetState(bps, ids, st) ==
    [id \in DOMAIN bps |-> IF id \in ids THEN [bps[id] EXCEPT !.State = st] ELSE bps[id]]

\* strings.Join(bpList, " ") passed as the one argument of the command: the
\* ids it names, and the empty string when the list is empty.
JoinIds(bpList) == IF Len(bpList) = 0 THEN <<"">> ELSE bpList

\* ------------------------------------------ breakpoint table and gdb
getEnabledPhpBreakpoints ==
    {name \in DOMAIN es.Breakpoints :
        /\ es.Breakpoints[name].State = breakpointStateEnabled
        /\ es.Breakpoints[name].Type # breakpointTypeInternal}

disableGdbBreakpoints(at, next, bpList) ==
    \/ sendGdbCommand(at, "break-disable", JoinIds(bpList))
    \/ /\ DRunning(at)
       /\ dwait
       /\ \E r \in GdbOutcomes(gdb, DCmd) :
            /\ Answered(r)
            /\ IF r.err THEN Fatal
               ELSE /\ es' = [es EXCEPT !.Breakpoints =
                                 SetState(@, Range(bpList), breakpointStateDisabled)]
                    /\ Goto(next)
                    /\ UNCHANGED <<dloc, payload>>

disableAllGdbBreakpoints(at, next) ==
    \/ sendGdbCommand(at, "break-disable", <<>>)
    \/ /\ DRunning(at)
       /\ dwait
       /\ \E r \in GdbOutcomes(gdb, DCmd) :
            /\ Answered(r)
            /\ IF r.err THEN Fatal
               ELSE /\ es' = [es EXCEPT !.Breakpoints =
                                 SetState(@, DOMAIN @, breakpointStateDisabled)]
                    /\ Goto(next)
                    /\ UNCHANGED <<dloc, payload>>

enableGdbBreakpoints(at, next, bpList) ==
    \/ sendGdbCommand(at, "break-enable", JoinIds(bpList))
    \/ /\ DRunning(at)
       /\ dwait
       /\ \E r \in GdbOutcomes(gdb, DCmd) :
            /\ Answered(r)
            /\ IF r.err THEN Fatal
               ELSE /\ es' = [es EXCEPT !.Breakpoints =
                                 SetState(@, Range(bpList), breakpointStateEnabled)]
                    /\ Goto(next)
                    /\ UNCHANGED <<dloc, payload>>

\* The break-insert line of setPhpBreakpointInGdbEx.
PhpBreakInsertArgs(disabled, phpLineno, internalLineno) ==
    (IF disabled THEN <<"-d">> ELSE <<>>)
    \o <<"-f", "-c", "lineno == " \o Itoa(phpLineno),
         "--source", "dontbug_break.c", "--line", Itoa(internalLineno)>>

\* setPhpBreakpointInGdbEx recording the line of dontbug_break.c in the table.
setPhpBreakpointInGdbExInternalLine(at, next, phpFilename, phpLineno, disabled) ==
    \/ /\ DRunning(at)
       /\ ~dwait
       /\ phpFilename \notin DOMAIN es.SourceMap
       /\ Fatal
       /\ Local
       /\ UNCHANGED req
    \/ /\ DRunning(at)
       /\ ~dwait
       /\ phpFilename \in DOMAIN es.SourceMap
       /\ sendGdbCommand(at, "break-insert",
                         PhpBreakInsertArgs(disabled, phpLineno, es.SourceMap[phpFilename]))
    \/ /\ DRunning(at)
       /\ dwait
       /\ \E r \in GdbOutcomes(gdb, DCmd) :
            /\ Answered(r)
            /\ IF r.err \/ r.class # "done" \/ r.value \in DOMAIN es.Breakpoints
               THEN Fatal
               ELSE /\ es' = [es EXCEPT !.Breakpoints =
                                 [id \in DOMAIN @ \cup {r.value} |->
                                     IF id \in DOMAIN @ THEN @[id]
                                     ELSE [Id |-> r.value,
                                           Filename |-> phpFilename,
                                           Lineno |-> es.SourceMap[phpFilename],
                                           State |-> IF disabled THEN breakpointStateDisabled
                                                     ELSE breakpointStateEnabled,
                                           Temporary |-> FALSE,
                                           Type |-> breakpointTypeLine]]]
                    /\ dloc' = [dloc EXCEPT !.id = r.value]
                    /\ Goto(next)
                    /\ UNCHANGED payload

\* setPhpBreakpointInGdbEx sending break-insert before it looks the file up.
setPhpBreakpointInGdbExUnmapped(at, next, phpFilename, phpLineno, disabled) ==
    \/ /\ DRunning(at)
       /\ ~dwait
       /\ phpFilename \notin DOMAIN es.SourceMap
       /\ sendGdbCommand(at, "break-insert", PhpBreakInsertArgs(disabled, phpLineno, 0))
    \/ /\ DRunning(at)
       /\ ~dwait
       /\ phpFilename \in DOMAIN es.SourceMap
       /\ sendGdbCommand(at, "break-insert",
                         PhpBreakInsertArgs(disabled, phpLineno, es.SourceMap[phpFilename]))
    \/ /\ DRunning(at)
       /\ dwait
       /\ \E r \in GdbOutcomes(gdb, DCmd) :
            /\ Answered(r)
            /\ IF r.err \/ r.class # "done" \/ r.value \in DOMAIN es.Breakpoints
                  \/ phpFilename \notin DOMAIN es.SourceMap
               THEN Fatal
               ELSE /\ es' = [es EXCEPT !.Breakpoints =
                                 [id \in DOMAIN @ \cup {r.value} |->
                                     IF id \in DOMAIN @ THEN @[id]
                                     ELSE [Id |-> r.value,
                                           Filename |-> phpFilename,
                                           Lineno |-> phpLineno,
                                           State |-> IF disabled THEN breakpointStateDisabled
                                                     ELSE breakpointStateEnabled,
                                           Temporary |-> FALSE,
                                           Type |-> breakpointTypeLine]]]
                    /\ dloc' = [dloc EXCEPT !.id = r.value]
                    /\ Goto(next)
                    /\ UNCHANGED payload

setPhpBreakpointInGdbEx(at, next, phpFilename, phpLineno, disabled) ==
    \/ /\ DRunning(at)
       /\ ~dwait
       /\ phpFilename \notin DOMAIN es.SourceMap
       /\ Fatal
       /\ Local
       /\ UNCHANGED req
    \/ /\ DRunning(at)
       /\ ~dwait
       /\ phpFilename \in DOMAIN es.SourceMap
       /\ sendGdbCommand(at, "break-insert",
                         PhpBreakInsertArgs(disabled, phpLineno, es.SourceMap[phpFilename]))
    \/ /\ DRunning(at)
       /\ dwait
       /\ \E r \in GdbOutcomes(gdb, DCmd) :
            /\ Answered(r)
            /\ IF r.err \/ r.class # "done" \/ r.value \in DOMAIN es.Breakpoints
               THEN Fatal
               ELSE /\ es' = [es EXCEPT !.Breakpoints =
                                 [id \in DOMAIN @ \cup {r.value} |->
                                     IF id \in DOMAIN @ THEN @[id]
                                     ELSE [Id |-> r.value,
                                           Filename |-> phpFilename,
                                           Lineno |-> phpLineno,
                                           State |-> IF disabled THEN breakpointStateDisabled
                                                     ELSE breakpointStateEnabled,
                                           Temporary |-> FALSE,
                                           Type |-> breakpointTypeLine]]]
                    /\ dloc' = [dloc EXCEPT !.id = r.value]
                    /\ Goto(next)
                    /\ UNCHANGED payload

setPhpStackLevelBreakpointInGdb(at, next, level) ==
    \/ sendGdbCommand(at, "break-insert",
                      <<"-t", "-f", "-c", "level <= " \o level,
                        "--source", "dontbug.c", "--line", Itoa(dontbugCstepLineNum)>>)
    \/ /\ DRunning(at)
       /\ dwait
       /\ \E r \in GdbOutcomes(gdb, DCmd) :
            /\ Answered(r)
            /\ IF r.err \/ r.class # "done" THEN Fatal
               ELSE /\ dloc' = [dloc EXCEPT !.id = r.value]
                    /\ Goto(next)
                    /\ UNCHANGED <<es, payload>>

removeGdbBreakpoint(at, next, id) ==
    \/ sendGdbCommand(at, "break-delete", <<id>>)
    \/ /\ DRunning(at)
       /\ dwait
       /\ \E r \in GdbOutcomes(gdb, DCmd) :
            /\ Answered(r)
            /\ IF r.err THEN Fatal
               ELSE /\ es' = [es EXCEPT !.Breakpoints = Restrict(@, DOMAIN @ \ {id})]
                    /\ Goto(next)
                    /\ UNCHANGED <<dloc, payload>>

continueExection(at, next, rev) ==
    \/ sendGdbCommand(at, "exec-continue", IF rev THEN <<"--reverse">> ELSE <<>>)
    \/ /\ DRunning(at)
       /\ dwait
       /\ \E r \in GdbOutcomes(gdb, DCmd) :
            /\ Answered(r)
            /\ IF r.err THEN Fatal
               ELSE Goto(next) /\ UNCHANGED <<es, dloc, payload>>

\* xGdbCmdValue: the value string of data-evaluate-expression, kept in the
\* local named by field.
xGdbCmdValue(at, next, expression, field) ==
    \/ sendGdbCommand(at, "data-evaluate-expression", <<expression>>)
    \/ /\ DRunning(at)
       /\ dwait
       /\ \E r \in GdbOutcomes(gdb, DCmd) :
            /\ Answered(r)
            /\ IF r.err \/ r.class # "done" THEN Fatal
               ELSE /\ dloc' = [dloc EXCEPT ![field] = r.value]
                    /\ Goto(next)
                    /\ UNCHANGED <<es, payload>>

\* xSlashSgdb: xGdbCmdValue, then parseGdbStringResponse.
xSlashSgdb(at, next, expression, field) ==
    \/ sendGdbCommand(at, "data-evaluate-expression", <<expression>>)
    \/ /\ DRunning(at)
       /\ dwait
       /\ \E r \in GdbOutcomes(gdb, DCmd) :
            /\ Answered(r)
            /\ IF r.err \/ r.class # "done" THEN Fatal
               ELSE IF ~parseGdbStringResponse(r.value).ok
                       \/ parseGdbStringResponse(r.value).panic
               THEN Fatal
               ELSE /\ dloc' = [dloc EXCEPT ![field] = parseGdbStringResponse(r.value).value]
                    /\ Goto(next)
                    /\ UNCHANGED <<es, payload>>

\* xSlashDgdb: xGdbCmdValue, then strconv.Atoi.
xSlashDgdb(at, next, expression, field) ==
    \/ sendGdbCommand(at, "data-evaluate-expression", <<expression>>)
    \/ /\ DRunning(at)
       /\ dwait
       /\ \E r \in GdbOutcomes(gdb, DCmd) :
            /\ Answered(r)
            /\ IF r.err \/ r.class # "done" THEN Fatal
               ELSE IF Atoi(r.value) < 0 THEN Fatal
               ELSE /\ dloc' = [dloc EXCEPT ![field] = Atoi(r.value)]
                    /\ Goto(next)
                    /\ UNCHANGED <<es, payload>>

\* ---------------------------------------------------------------- startup
\* A sendGdbCommand whose result the caller does not look at.
sendAndIgnoreResult(at, next, op, args) ==
    \/ sendGdbCommand(at, op, args)
    \/ /\ DRunning(at)
       /\ dwait
       /\ \E r \in GdbOutcomes(gdb, DCmd) :
            /\ Answered(r)
            /\ IF r.err THEN Fatal
               ELSE Goto(next) /\ UNCHANGED <<es, dloc, payload>>

NewEngineState(properFilename) ==
    [EntryFilePHP |-> properFilename,
     LastSequenceNum |-> 0,
     Status |-> statusStarting,
     Reason |-> reasonOk,
     FeatureMap |-> initFeatureMap,
     SourceMap |-> BpLocMap,
     Breakpoints |-> [id \in {"1"} |->
                         [Id |-> "1",
                          Filename |-> "dontbug.c",
                          Lineno |-> dontbugCstepLineNum,
                          State |-> breakpointStateDisabled,
                          Temporary |-> FALSE,
                          Type |-> breakpointTypeInternal]]]

\* startGdbAndInitDebugEngineState continuing before it sets the print length.
startGdbContinuingFirst ==
    \/ sendAndIgnoreResult("start.bp1", "start.bp2", "break-insert",
           <<"-f", "-d", "--source", "dontbug.c", "--line", Itoa(dontbugCstepLineNum)>>)
    \/ sendAndIgnoreResult("start.bp2", "start.set", "break-insert",
           <<"-t", "-f", "--source", "dontbug.c", "--line", Itoa(dontbugCstepLineNumTemp)>>)
    \/ sendAndIgnoreResult("start.set", "start.cont", "exec-continue", <<>>)
    \/ sendAndIgnoreResult("start.cont", "start.eval", "gdb-set", <<"print", "elements", "0">>)
    \/ sendGdbCommand("start.eval", "data-evaluate-expression", <<"filename">>)
    \/ /\ DRunning("start.eval")
       /\ dwait
       /\ \E r \in GdbOutcomes(gdb, DCmd) :
            /\ Answered(r)
            /\ IF r.err \/ r.class # "done" THEN Fatal
               ELSE IF ~parseGdbStringResponse(r.value).ok
                       \/ parseGdbStringResponse(r.value).panic
               THEN Fatal
               ELSE /\ es' = NewEngineState(parseGdbStringResponse(r.value).value)
                    /\ Goto("dial")
                    /\ UNCHANGED <<dloc, payload>>

startGdbAndInitDebugEngineState ==
    \/ sendAndIgnoreResult("start.bp1", "start.bp2", "break-insert",
           <<"-f", "-d", "--source", "dontbug.c", "--line", Itoa(dontbugCstepLineNum)>>)
    \/ sendAndIgnoreResult("start.bp2", "start.set", "break-insert",
           <<"-t", "-f", "--source", "dontbug.c", "--line", Itoa(dontbugCstepLineNumTemp)>>)
    \/ sendAndIgnoreResult("start.set", "start.cont", "gdb-set", <<"print", "elements", "0">>)
    \/ sendAndIgnoreResult("start.cont", "start.eval", "exec-continue", <<>>)
    \/ sendGdbCommand("start.eval", "data-evaluate-expression", <<"filename">>)
    \/ /\ DRunning("start.eval")
       /\ dwait
       /\ \E r \in GdbOutcomes(gdb, DCmd) :
            /\ Answered(r)
            /\ IF r.err \/ r.class # "done" THEN Fatal
               ELSE IF ~parseGdbStringResponse(r.value).ok
                       \/ parseGdbStringResponse(r.value).panic
               THEN Fatal
               ELSE /\ es' = NewEngineState(parseGdbStringResponse(r.value).value)
                    /\ Goto("dial")
                    /\ UNCHANGED <<dloc, payload>>

\* -------------------------------------------------------- startReplayInRR
\* Lines rr prints before gdb can attach, as words: one that names the gdb
\* endpoint and one that does not.
RrEndpointLine == <<"target", "extended-remote", ":9999", "/tmp/rr-hardlink">>

RrNoiseLine == <<"rr:", "replaying">>

\* What rr prints until its output ends: up to MaxRrLines lines.
RrOutputs ==
    UNION {[1..n -> {RrEndpointLine, RrNoiseLine}] : n \in 0..MaxRrLines}

\* strings.Contains(line, "target extended-remote").
ContainsEndpoint(line) ==
    \E i \in 1..(Len(line) - 1) : line[i] = "target" /\ line[i + 1] = "extended-remote"

\* The main goroutine in the read loop of startReplayInRR.  buf.ReadString
\* returns the next line of rr's output, or an empty line once the output has
\* ended (the error is dropped); a line with the endpoint leads to the send
\* on cancel, the close of cancel and the call of
\* startGdbAndInitDebugEngineState.
startReplayInRR ==
    /\ \/ /\ DRunning("replay.read")
          /\ rrStart' = IF rrStart.out = <<>>
                        THEN [rrStart EXCEPT !.line = <<>>]
                        ELSE [rrStart EXCEPT !.line = Head(rrStart.out),
                                             !.out = Tail(rrStart.out),
                                             !.seen = @ \/ ContainsEndpoint(Head(rrStart.out))]
          /\ dpc' = "replay.contains"
       \/ /\ DRunning("replay.contains")
          /\ dpc' = IF ContainsEndpoint(rrStart.line) THEN "replay.cancel" ELSE "replay.read"
          /\ UNCHANGED rrStart
       \/ /\ DRunning("replay.cancel")
          /\ rrStart' = [rrStart EXCEPT !.cancel = "sent"]
          /\ dpc' = "replay.close"
       \/ /\ DRunning("replay.close")
          /\ rrStart' = [rrStart EXCEPT !.cancel = "closed"]
          /\ dpc' = "start.bp1"
    /\ UNCHANGED <<es, gdb, inflight, proc, dwait, req, dloc, miLog, payload,
                   reverse, reverseSeen, opc, stdin, hist, recSession, genCall>>

\* The goroutine of the deadline: time.Sleep is over; select takes the value
\* (or the close) of cancel when there is one, else its default calls
\* log.Fatal.
replayDeadline ==
    /\ proc = "running"
    /\ rrStart.timer = "sleep"
    /\ rrStart' = [rrStart EXCEPT !.timer = "done"]
    /\ proc' = IF rrStart.cancel = "open" THEN "fatal" ELSE proc
    /\ UNCHANGED <<es, gdb, inflight, dpc, dwait, req, dloc, miLog, payload,
                   reverse, reverseSeen, opc, stdin, hist, recSession, genCall>>

\* ------------------------------------------------------ debuggerIdeCmdLoop
\* net.Dial, the init packet, and the start of the operator goroutine.
debuggerIdeCmdLoopConnect ==
    /\ DRunning("dial")
    /\ \/ /\ proc' = "fatal"
          /\ UNCHANGED <<dpc, opc, miLog>>
       \/ /\ dpc' = "read"
          /\ opc' = "scan"
          /\ miLog' = <<>>
          /\ proc' = proc
    /\ UNCHANGED <<es, gdb, inflight, dwait, req, dloc, payload, reverse, reverseSeen,
                   stdin, outside, hist>>

EnabledInTable ==
    {id \in DOMAIN es.Breakpoints : es.Breakpoints[id].State = breakpointStateEnabled}

EnabledInGdb == {id \in DOMAIN gdb.bps : gdb.bps[id].enabled}

\* The label of the handler the switch of handleIdeRequest selects.
HandlerOf(command) ==
    CASE command = "feature_set" -> "feature_set"
      [] command = "status" -> "status"
      [] command = "breakpoint_set" -> "breakpoint_set"
      [] command = "step_into" -> "si.disableAll"
      [] command = "step_over" -> "so.disableAll"
      [] command \in {"eval", "stack_get", "stack_depth", "context_names", "context_get"} ->
           "nobp.snapshot"
      [] command \in {"typemap_get", "property_get", "property_value"} -> "std.eval"
      [] command = "stop" -> "stop"
      [] OTHER -> "default"

\* One turn of the read loop up to the switch of handleIdeRequest: ReadString,
\* the read of reverse (unsynchronised with the operator goroutine's writes),
\* parseCommand, the sequence check and the store of LastSequenceNum.
handleIdeRequest(lines) ==
    /\ DRunning("read")
    /\ \E command \in lines, rev \in reverseSeen :
         /\ parseCommand(command).Command \in {"breakpoint_set", "step_over"}
               => gdb.next <= MaxBpId
         /\ IF \/ ~parseCommand(command).ok
               \/ es.LastSequenceNum > parseCommand(command).Sequence
            THEN Fatal /\ UNCHANGED <<req, hist>>
            ELSE /\ es' = [es EXCEPT !.LastSequenceNum = parseCommand(command).Sequence]
                 /\ req' = parseCommand(command)
                 /\ dloc' = [NoLocals EXCEPT !.reverse = rev,
                                             !.flag = reverse,
                                             !.prePos = gdb.pos,
                                             !.preTable = EnabledInTable,
                                             !.preGdb = EnabledInGdb,
                                             !.preEs = [es EXCEPT !.LastSequenceNum =
                                                           parseCommand(command).Sequence]]
                 /\ hist' = IF /\ parseCommand(command).Command = "step_into"
                               /\ hist.phase = "toggled"
                            THEN [hist EXCEPT !.accepted = TRUE, !.phase = "second"]
                            ELSE [hist EXCEPT !.accepted = TRUE, !.phase = "", !.a = 0]
                 /\ Goto(HandlerOf(parseCommand(command).Command))
                 /\ UNCHANGED payload
    /\ UNCHANGED <<gdb, inflight, dwait, miLog, reverse, reverseSeen, opc, stdin, outside>>

\* The socket read fails (the IDE went away): log.Fatal.
ideReadError ==
    /\ DRunning("read")
    /\ Fatal
    /\ Local
    /\ UNCHANGED req

\* The reply about to be written is that of a forward step_into that moved
\* from one script location to the next.
ForwardStepDone ==
    /\ req.Command = "step_into"
    /\ ~dloc.flag /\ ~dloc.reverse /\ ~reverse
    /\ dloc.prePos \in 1..(NumLocs - 1)
    /\ gdb.pos = dloc.prePos + 1
    /\ payload.lineno = Itoa(LineAt(gdb.pos))

\* The reply about to be written carries status "break".
RepliesBreak == "status" \in DOMAIN payload /\ payload.status = "break"

\* conn.Write of the framed reply; the loop returns to ReadString.
writeReply ==
    /\ DRunning("write")
    /\ dpc' = "read"
    /\ req' = NoRequest
    /\ dloc' = NoLocals
    /\ miLog' = <<>>
    /\ payload' = NoPayload
    /\ hist' = IF ForwardStepDone
               THEN [hist EXCEPT !.phase = "stepped", !.a = dloc.prePos,
                                 !.broke = @ \/ RepliesBreak]
               ELSE [hist EXCEPT !.phase = "", !.a = 0,
                                 !.broke = @ \/ RepliesBreak]
    /\ UNCHANGED <<es, gdb, inflight, proc, dwait, reverse, reverseSeen, opc, stdin, outside>>

\* ---------------------------------------------------------------- handlers
\* FeatureInt.Set assigns the result of strconv.Atoi to Value before it looks
\* at the error: a writable integer feature is 0 when log.Fatal is called.
FeatureSetClobbers ==
    /\ "n" \in DOMAIN req.Options
    /\ "v" \in DOMAIN req.Options
    /\ req.Options["n"] \in DOMAIN es.FeatureMap
    /\ es.FeatureMap[req.Options["n"]].kind = "int"
    /\ ~es.FeatureMap[req.Options["n"]].ReadOnly
    /\ Atoi(req.Options["v"]) < 0

handleFeatureSet ==
    /\ DRunning("feature_set")
    /\ IF \/ "n" \notin DOMAIN req.Options
          \/ "v" \notin DOMAIN req.Options
          \/ req.Options["n"] \notin DOMAIN es.FeatureMap
          \/ FeatureSetFatal(es.FeatureMap[req.Options["n"]], req.Options["v"])
       THEN IF FeatureSetClobbers
            THEN /\ es' = [es EXCEPT !.FeatureMap[req.Options["n"]].Value = 0]
                 /\ proc' = "fatal"
                 /\ UNCHANGED <<dpc, dloc, payload>>
            ELSE Fatal
       ELSE /\ es' = [es EXCEPT !.FeatureMap[req.Options["n"]] =
                                     FeatureSet(@, req.Options["v"])]
            /\ payload' = [command |-> "feature_set",
                           transaction_id |-> Itoa(req.Sequence),
                           feature |-> req.Options["n"],
                           success |-> Itoa(1)]
            /\ Goto("write")
            /\ UNCHANGED dloc
    /\ Local
    /\ UNCHANGED req

\* handleStatus answering under the transaction id of the request to come.
handleStatusStale ==
    /\ DRunning("status")
    /\ payload' = [command |-> "status",
                   transaction_id |-> Itoa(req.Sequence + 1),
                   status |-> es.Status,
                   reason |-> es.Reason]
    /\ Goto("write")
    /\ Local
    /\ UNCHANGED <<es, req, dloc>>

handleStatus ==
    /\ DRunning("status")
    /\ payload' = [command |-> "status",
                   transaction_id |-> Itoa(req.Sequence),
                   status |-> es.Status,
                   reason |-> es.Reason]
    /\ Goto("write")
    /\ Local
    /\ UNCHANGED <<es, req, dloc>>

handleBreakpointSet ==
    /\ DRunning("breakpoint_set")
    /\ IF \/ "t" \notin DOMAIN req.Options
          \/ ~stringToBreakpointType(req.Options["t"]).ok
          \/ stringToBreakpointType(req.Options["t"]).type # breakpointTypeLine
       THEN Fatal
       ELSE Goto("bp.line") /\ UNCHANGED <<es, dloc, payload>>
    /\ Local
    /\ UNCHANGED req

handleBreakpointSetLineBreakpoint ==
    \/ /\ DRunning("bp.line")
       /\ IF \/ "f" \notin DOMAIN req.Options
             \/ "n" \notin DOMAIN req.Options
             \/ Atoi(req.Options["n"]) < 0
          THEN Fatal
          ELSE /\ dloc' = [dloc EXCEPT
                              !.disabled = /\ "s" \in DOMAIN req.Options
                                           /\ req.Options["s"] = "disabled ",
                              !.phpLineno = Atoi(req.Options["n"])]
               /\ Goto("bp.insert")
               /\ UNCHANGED <<es, payload>>
       /\ Local
       /\ UNCHANGED req
    \/ setPhpBreakpointInGdbEx("bp.insert", "bp.reply", req.Options["f"],
                               dloc.phpLineno, dloc.disabled)
    \/ /\ DRunning("bp.reply")
       /\ payload' = [command |-> "breakpoint_set",
                      transaction_id |-> Itoa(req.Sequence),
                      id |-> dloc.id]
       /\ Goto("write")
       /\ Local
       /\ UNCHANGED <<es, req, dloc>>

\* handleStepInto storing the status of its reply in the engine state.
handleStepIntoRecordingBreak ==
    \/ disableAllGdbBreakpoints("si.disableAll", "si.enable")
    \/ enableGdbBreakpoints("si.enable", "si.continue", <<dontbugMasterBp>>)
    \/ continueExection("si.continue", "si.disable", dloc.reverse)
    \/ disableGdbBreakpoints("si.disable", "si.filename", <<dontbugMasterBp>>)
    \/ xSlashSgdb("si.filename", "si.lineno", "filename", "filename")
    \/ xSlashDgdb("si.lineno", "si.reply", "lineno", "lineno")
    \/ /\ DRunning("si.reply")
       /\ payload' = [command |-> "step_into",
                      transaction_id |-> Itoa(req.Sequence),
                      status |-> "break",
                      reason |-> "ok",
                      filename |-> dloc.filename,
                      lineno |-> Itoa(dloc.lineno)]
       /\ Goto("write")
       /\ es' = [es EXCEPT !.Status = "break"]
       /\ Local
       /\ UNCHANGED <<req, dloc>>

handleStepInto ==
    \/ disableAllGdbBreakpoints("si.disableAll", "si.enable")
    \/ enableGdbBreakpoints("si.enable", "si.continue", <<dontbugMasterBp>>)
    \/ continueExection("si.continue", "si.disable", dloc.reverse)
    \/ disableGdbBreakpoints("si.disable", "si.filename", <<dontbugMasterBp>>)
    \/ xSlashSgdb("si.filename", "si.lineno", "filename", "filename")
    \/ xSlashDgdb("si.lineno", "si.reply", "lineno", "lineno")
    \/ /\ DRunning("si.reply")
       /\ payload' = [command |-> "step_into",
                      transaction_id |-> Itoa(req.Sequence),
                      status |-> "break",
                      reason |-> "ok",
                      filename |-> dloc.filename,
                      lineno |-> Itoa(dloc.lineno)]
       /\ Goto("write")
       /\ Local
       /\ UNCHANGED <<es, req, dloc>>

handleStepOver ==
    \/ disableAllGdbBreakpoints("so.disableAll", "so.level")
    \/ xGdbCmdValue("so.level", "so.insert", "level", "level")
    \/ setPhpStackLevelBreakpointInGdb("so.insert", "so.continue", dloc.level)
    \/ continueExection("so.continue", "so.remove", dloc.reverse)
    \/ removeGdbBreakpoint("so.remove", "so.filename", dloc.id)
    \/ xSlashSgdb("so.filename", "so.lineno", "filename", "filename")
    \/ xSlashDgdb("so.lineno", "so.reply", "lineno", "lineno")
    \/ /\ DRunning("so.reply")
       /\ payload' = [command |-> "step_over",
                      transaction_id |-> Itoa(req.Sequence),
                      status |-> "break",
                      reason |-> "ok",
                      filename |-> dloc.filename,
                      lineno |-> Itoa(dloc.lineno)]
       /\ Goto("write")
       /\ Local
       /\ UNCHANGED <<es, req, dloc>>

XdebugCmd(fullCommand) == "dontbug_xdebug_cmd(\"" \o fullCommand \o "\")"

handleWithNoGdbBreakpoints ==
    \/ /\ DRunning("nobp.snapshot")
       /\ \E bpList \in Orders(getEnabledPhpBreakpoints) :
            dloc' = [dloc EXCEPT !.bpList = bpList]
       /\ Goto("nobp.disableAll")
       /\ Local
       /\ UNCHANGED <<es, req, payload>>
    \/ disableAllGdbBreakpoints("nobp.disableAll", "nobp.eval")
    \/ xSlashSgdb("nobp.eval", "nobp.enable", XdebugCmd(req.FullCommand), "result")
    \/ enableGdbBreakpoints("nobp.enable", "nobp.reply", dloc.bpList)
    \/ /\ DRunning("nobp.reply")
       /\ payload' = [command |-> req.Command, body |-> dloc.result]
       /\ Goto("write")
       /\ Local
       /\ UNCHANGED <<es, req, dloc>>

\* handleStandard disabling the breakpoints before it evaluates.
handleStandardToggling ==
    \/ disableAllGdbBreakpoints("std.eval", "std.toggled")
    \/ xSlashSgdb("std.toggled", "std.reply", XdebugCmd(req.FullCommand), "result")
    \/ /\ DRunning("std.reply")
       /\ payload' = [command |-> req.Command, body |-> dloc.result]
       /\ Goto("write")
       /\ Local
       /\ UNCHANGED <<es, req, dloc>>

handleStandard ==
    \/ xSlashSgdb("std.eval", "std.reply", XdebugCmd(req.FullCommand), "result")
    \/ /\ DRunning("std.reply")
       /\ payload' = [command |-> req.Command, body |-> dloc.result]
       /\ Goto("write")
       /\ Local
       /\ UNCHANGED <<es, req, dloc>>

\* handleStop leaving the process without ending the gdb session.
handleStopAbrupt ==
    /\ DRunning("stop")
    /\ gdb' = gdb
    /\ proc' = "exit0"
    /\ UNCHANGED <<es, inflight, dpc, dwait, req, dloc, miLog, payload,
                   reverse, reverseSeen, opc, stdin, outside, hist>>

handleStop ==
    /\ DRunning("stop")
    /\ gdb' = [gdb EXCEPT !.exit = "dispatcher"]
    /\ proc' = "exit0"
    /\ UNCHANGED <<es, inflight, dpc, dwait, req, dloc, miLog, payload,
                   reverse, reverseSeen, opc, stdin, outside, hist>>

\* The default branch of the switch.
handleUnimplemented ==
    /\ DRunning("default")
    /\ es' = [es EXCEPT !.SourceMap = EmptyMap]
    /\ proc' = "fatal"
    /\ UNCHANGED <<gdb, inflight, dpc, dwait, req, dloc, miLog, payload,
                   reverse, reverseSeen, opc, stdin, outside, hist>>

\* ------------------------------------------------- the operator goroutine
\* Lines the operator types, as characters: t, any other letter, q, and a
\* gdb/mi command after "-".
PlainOperatorLines ==
    {<<"t", "\n">>, <<"x", "\n">>, <<"q", "\n">>,
     <<"-", "b", "r", "e", "a", "k", "-", "l", "i", "s", "t", "\n">>}

\* As above, and a line that starts with a blank and one of seven words.
OperatorLines ==
    PlainOperatorLines
    \cup {<<" ", "t", "\n">>,
          <<"x", " ", "1", " ", "2", " ", "3", " ", "4", " ", "5", " ", "t", "\n">>}

\* fmt's SkipSpace before an operand: blanks are passed over.
RECURSIVE SkipSpace(_)
SkipSpace(cs) ==
    IF cs # <<>> /\ cs[1] = " " THEN SkipSpace(Tail(cs)) ELSE cs

\* Length of the word at the head of cs: it ends at a blank or a newline.
RECURSIVE TokenLen(_)
TokenLen(cs) ==
    IF cs = <<>> \/ cs[1] \in {" ", "\n"} THEN 0 ELSE 1 + TokenLen(Tail(cs))

\* The operands fmt.Scanln fills, k at most: a newline where an operand is
\* expected ends the scan with an error and is consumed.
RECURSIVE ScanItems(_, _)
ScanItems(cs, k) ==
    IF k = 0 THEN [items |-> <<>>, rest |-> cs, err |-> FALSE]
    ELSE IF SkipSpace(cs) = <<>> THEN [items |-> <<>>, rest |-> <<>>, err |-> TRUE]
    ELSE IF SkipSpace(cs)[1] = "\n"
    THEN [items |-> <<>>, rest |-> Tail(SkipSpace(cs)), err |-> TRUE]
    ELSE LET s == SkipSpace(cs)
             more == ScanItems(SubSeq(s, TokenLen(s) + 1, Len(s)), k - 1)
         IN  [items |-> <<SubSeq(s, 1, TokenLen(s))>> \o more.items,
              rest |-> more.rest,
              err |-> more.err]

\* fmt.Scanln(&userResponse, &a[0], &a[1], &a[2], &a[3]) on the characters cs
\* of standard input.  After the fifth operand Scanln reads on to the newline;
\* a character that is not a blank ends it with an error, that character is
\* consumed and the rest of the line stays in standard input.
Scanln(cs) ==
    LET r == ScanItems(cs, 5)
        after == SkipSpace(r.rest)
    IN  [userResponse |-> IF r.items = <<>> THEN <<>> ELSE r.items[1],
         a |-> IF r.items = <<>> THEN <<>> ELSE Tail(r.items),
         rest |-> IF r.err \/ after = <<>> THEN r.rest ELSE Tail(after)]

\* What Scanln can find in standard input: a line the operator typed, or
\* what an earlier Scanln left of one.
Leftovers(S) == {Scanln(cs).rest : cs \in S} \ {<<>>}

RECURSIVE StdinReach(_)
StdinReach(S) ==
    IF Leftovers(S) \subseteq S THEN S ELSE StdinReach(S \cup Leftovers(S))

\* Scanln, tabulated over these inputs.
Scanned == [cs \in StdinReach(OperatorLines) |-> Scanln(cs)]

\* strings.HasPrefix(userResponse, c) for a one-character c.
HasPrefix(chars, c) == chars # <<>> /\ chars[1] = c

\* The string made of the characters chars.
RECURSIVE Concat(_)
Concat(chars) ==
    IF chars = <<>> THEN "" ELSE chars[1] \o Concat(Tail(chars))

\* The branch of the operator goroutine's if/else chain that userResponse
\* selects: "t", "-", "q" or "" for the last one.
OperatorBranch(userResponse) ==
    CASE HasPrefix(userResponse, "t") -> "t"
      [] HasPrefix(userResponse, "-") -> "-"
      [] HasPrefix(userResponse, "q") -> "q"
      [] OTHER -> ""

\* What the next Scanln of the operator goroutine reads: what an earlier
\* Scanln left of a line or, when nothing is left, a line the operator types.
OperatorInput(lines) == IF stdin = <<>> THEN lines ELSE {stdin}

\* The operator types a line whose first character is t.
TypesT(line) == stdin = <<>> /\ line[1] = "t"

OCmd == CHOOSE c \in inflight : c.by = "operator"

\* userResponse starts with t.
operatorToggle(lines) ==
    /\ proc = "running"
    /\ opc = "scan"
    /\ \E line \in OperatorInput(lines) :
         /\ OperatorBranch(Scanned[line].userResponse) = "t"
         /\ stdin' = Scanned[line].rest
         /\ hist' = IF hist.phase = "stepped" /\ dpc = "read"
                    THEN [hist EXCEPT !.phase = "toggled",
                                      !.tOdd = IF TypesT(line) THEN ~@ ELSE @]
                    ELSE [hist EXCEPT !.phase = "", !.a = 0,
                                      !.tOdd = IF TypesT(line) THEN ~@ ELSE @]
    /\ reverse' = ~reverse
    /\ reverseSeen' = reverseSeen \cup {~reverse}
    /\ UNCHANGED <<es, gdb, inflight, proc, dpc, dwait, req, dloc, miLog, payload, opc,
                   outside>>

\* userResponse starts with -: sendGdbCommand from the operator goroutine.
operatorPassthrough(lines) ==
    \/ /\ proc = "running"
       /\ opc = "scan"
       /\ \E line \in OperatorInput(lines) :
            LET scanned == Scanned[line]
            IN  /\ OperatorBranch(scanned.userResponse) = "-"
                /\ stdin' = scanned.rest
                /\ inflight' = inflight \cup
                                  {[by |-> "operator",
                                    op |-> Concat(Tail(scanned.userResponse)),
                                    args |-> [i \in DOMAIN scanned.a |->
                                                 Concat(scanned.a[i])]]}
       /\ opc' = "wait"
       /\ UNCHANGED <<es, gdb, proc, dpc, dwait, req, dloc, miLog, payload,
                      reverse, reverseSeen, hist, outside>>
    \/ /\ proc = "running"
       /\ opc = "wait"
       /\ \E r \in GdbOutcomes(gdb, OCmd) :
            /\ gdb' = r.gdb
            /\ inflight' = inflight \ {OCmd}
            /\ IF r.err THEN proc' = "fatal" /\ opc' = opc
               ELSE proc' = proc /\ opc' = "scan"
       /\ UNCHANGED <<es, dpc, dwait, req, dloc, miLog, payload, reverse, reverseSeen,
                      stdin, outside, hist>>

\* userResponse starts with q.
OperatorQuits(lines) ==
    /\ proc = "running"
    /\ opc = "scan"
    /\ \E line \in OperatorInput(lines) :
         /\ OperatorBranch(Scanned[line].userResponse) = "q"
         /\ stdin' = Scanned[line].rest
    /\ UNCHANGED outside

\* A q handler that also marks the session as stopping before it exits.
operatorQuitStopping(lines) ==
    /\ OperatorQuits(lines)
    /\ gdb' = [gdb EXCEPT !.exit = "operator"]
    /\ es' = [es EXCEPT !.Status = "stopping"]
    /\ proc' = "exit0"
    /\ UNCHANGED <<inflight, dpc, dwait, req, dloc, miLog, payload,
                   reverse, reverseSeen, opc, hist>>

operatorQuit(lines) ==
    /\ OperatorQuits(lines)
    /\ gdb' = [gdb EXCEPT !.exit = "operator"]
    /\ proc' = "exit0"
    /\ UNCHANGED <<es, inflight, dpc, dwait, req, dloc, miLog, payload,
                   reverse, reverseSeen, opc, hist>>

\* Any other userResponse, the empty one included: the current direction is
\* printed.
operatorShowDirection(lines) ==
    /\ proc = "running"
    /\ opc = "scan"
    /\ \E line \in OperatorInput(lines) :
         /\ OperatorBranch(Scanned[line].userResponse) = ""
         /\ stdin' = Scanned[line].rest
    /\ UNCHANGED <<es, gdb, inflight, proc, dpc, dwait, req, dloc, miLog, payload,
                   reverse, reverseSeen, opc, hist, outside>>

OperatorNext(lines) ==
    \/ operatorToggle(lines)
    \/ operatorPassthrough(lines)
    \/ operatorQuit(lines)
    \/ operatorShowDirection(lines)

DispatcherNext ==
    \/ startGdbAndInitDebugEngineState
    \/ debuggerIdeCmdLoopConnect
    \/ handleIdeRequest(IdeCommands)
    \/ ideReadError
    \/ writeReply
    \/ handleFeatureSet
    \/ handleStatus
    \/ handleBreakpointSet
    \/ handleBreakpointSetLineBreakpoint
    \/ handleStepInto
    \/ handleStepOver
    \/ handleWithNoGdbBreakpoints
    \/ handleStandard
    \/ handleStop
    \/ handleUnimplemented

Next == DispatcherNext \/ OperatorNext(PlainOperatorLines)

Spec == Init /\ [][Next]_vars

\* A session in which the IDE sends every command and the operator types
\* nothing.
SpecDispatcher == Init /\ [][DispatcherNext]_vars

\* A session with a gdb that never fails, an IDE that sets no breakpoints and
\* does not step over, and the whole operator goroutine.
OperatorSessionLines ==
    {<<c, "-i", s>> : c \in {"status", "step_into", "eval", "stop", "run"},
                     s \in SeqTokens}
    \cup {<<"feature_set", "-i", s, "-n", "max_depth", "-v", "5">> : s \in SeqTokens}

NextOperator ==
    \/ startGdbAndInitDebugEngineState
    \/ debuggerIdeCmdLoopConnect
    \/ handleIdeRequest(OperatorSessionLines)
    \/ ideReadError
    \/ writeReply
    \/ handleFeatureSet
    \/ handleStatus
    \/ handleStepInto
    \/ handleWithNoGdbBreakpoints
    \/ handleStop
    \/ handleUnimplemented
    \/ OperatorNext(PlainOperatorLines)

SpecOperator == InitNoFaults /\ [][NextOperator]_vars

\* A session in which the IDE only asks for the status and the operator types
\* lines of every shape.
StdinSessionLines == {<<"status", "-i", s>> : s \in SeqTokens}

NextStdin ==
    \/ startGdbAndInitDebugEngineState
    \/ debuggerIdeCmdLoopConnect
    \/ handleIdeRequest(StdinSessionLines)
    \/ ideReadError
    \/ writeReply
    \/ handleStatus
    \/ OperatorNext(OperatorLines)

SpecStdin == InitNoFaults /\ [][NextStdin]_vars

\* A session in which the IDE sets line breakpoints, steps into and asks for
\* properties, and the operator types nothing.
BreakpointSessionLines ==
    BreakpointSetLines
    \cup {<<"breakpoint_set", "-i", s, "-t", "line", "-f", EntryFileUri, "-n", "18",
            "-s", "enabled">> : s \in SeqTokens}
    \cup {<<c, "-i", s>> : c \in {"status", "step_into", "property_get", "typemap_get",
                                 "property_value"},
                         s \in SeqTokens}

NextBreakpoints ==
    \/ startGdbAndInitDebugEngineState
    \/ debuggerIdeCmdLoopConnect
    \/ handleIdeRequest(BreakpointSessionLines)
    \/ ideReadError
    \/ writeReply
    \/ handleStatus
    \/ handleBreakpointSet
    \/ handleBreakpointSetLineBreakpoint
    \/ handleStepInto
    \/ handleStandard

SpecBreakpoints == Init /\ [][NextBreakpoints]_vars

\* A session in which the IDE sets features and asks for the status, and the
\* operator types nothing.
FeatureSessionLines ==
    {<<"feature_set", "-i", s, "-n", n, "-v", v>> :
        s \in SeqTokens \cup {"01"},
        n \in {"max_depth", "show_hidden", "language_name", "protocol_version", "no_such"},
        v \in {"0", "1", "5", "05", "x"}}
    \cup {<<"feature_set", "-i", s, "-n", "max_depth">> : s \in SeqTokens}
    \cup {<<"status", "-i", s>> : s \in SeqTokens}

NextFeatures ==
    \/ startGdbAndInitDebugEngineState
    \/ debuggerIdeCmdLoopConnect
    \/ handleIdeRequest(FeatureSessionLines)
    \/ ideReadError
    \/ writeReply
    \/ handleFeatureSet
    \/ handleStatus

SpecFeatures == Init /\ [][NextFeatures]_vars

\* The start of a replay: rr's output is read under the deadline, then gdb is
\* started.
InitReplay ==
    \E out \in RrOutputs :
        BootAt(0, "replay.read",
               [out |-> out, line |-> <<>>, seen |-> FALSE, cancel |-> "open",
                timer |-> "sleep"])

NextReplay ==
    \/ startReplayInRR
    \/ replayDeadline
    \/ startGdbAndInitDebugEngineState

SpecReplay == InitReplay /\ [][NextReplay]_vars

\* ------------------------------------------------------- the record command
\* buf := make([]byte, 2048), scaled down: the length of the read buffer of a
\* connection of the listener.
RecvBufLen == 6

\* Packets the debugger engine sends on one connection.
MaxPackets == 2

\* Bytes of a packet's XML besides its transaction id.
MaxPad == 3

\* Largest transaction id the engine puts into a packet.
MaxTxn == 1

\* SIGINTs the process receives.
MaxSigints == 2

NUL == "NUL"

DigitChars == <<"0", "1", "2", "3", "4", "5", "6", "7", "8", "9">>

\* strconv.Itoa / fmt.Sprintf("%d") of n >= 0, as bytes.
RECURSIVE ItoaBytes(_)
ItoaBytes(n) ==
    IF n < 10 THEN <<DigitChars[n + 1]>>
    ELSE ItoaBytes(n \div 10) \o <<DigitChars[(n % 10) + 1]>>

DigitValue(c) == (CHOOSE i \in 1..10 : DigitChars[i] = c) - 1

RECURSIVE DigitsValue(_)
DigitsValue(bs) ==
    IF bs = <<>> THEN 0
    ELSE 10 * DigitsValue(SubSeq(bs, 1, Len(bs) - 1)) + DigitValue(bs[Len(bs)])

\* strconv.Atoi on bytes: an empty string and a string with a byte that is
\* not a digit are errors (no sign occurs among the bytes of the model).
AtoiBytes(bs) ==
    IF bs = <<>> \/ \E i \in 1..Len(bs) : bs[i] \notin Range(DigitChars)
    THEN [err |-> TRUE, n |-> 0]
    ELSE [err |-> FALSE, n |-> DigitsValue(bs)]

\* bytes.IndexByte(b, c): the 0-based index of the first c in b, -1 when
\* there is none.
IndexByte(b, c) ==
    IF \E i \in 1..Len(b) : b[i] = c
    THEN (CHOOSE i \in 1..Len(b) : b[i] = c /\ \A j \in 1..(i - 1) : b[j] # c) - 1
    ELSE -1

\* The checks of the listener on the bytesRead bytes it has read into buf: the
\* first NUL, the declared length before it, the bytes the length leaves
\* unaccounted for, and the XML it logs, buf[nullAt+1 : bytesRead-1].
parseFrame(buf, bytesRead) ==
    LET nullAt == IndexByte(buf, NUL)
        dataLen == AtoiBytes(SubSeq(buf, 1, nullAt))
        bytesLeft == dataLen.n - (bytesRead - nullAt - 2)
    IN [fatal |-> nullAt = -1 \/ dataLen.err \/ bytesLeft # 0,
        bytesLeft |-> IF nullAt = -1 \/ dataLen.err THEN -1 ELSE bytesLeft,
        xml |-> SubSeq(buf, nullAt + 2, bytesRead - 1)]

\* The DBGp framing of the engine: <decimal-length> NUL <xml> NUL.
EngineFrame(xml) == ItoaBytes(Len(xml)) \o <<NUL>> \o xml \o <<NUL>>

\* The XML of a packet of the engine: its transaction id k and pad more bytes.
EngineXml(k, pad) == <<DigitChars[k + 1]>> \o [i \in 1..pad |-> "x"]

\* The transaction id in the XML of a packet.
TransactionId(xml) == DigitValue(xml[1])

\* fmt.Sprintf("run -i %d\x00", seq)
runCommand(seq) ==
    <<"r", "u", "n", " ", "-", "i", " ">> \o ItoaBytes(seq) \o <<NUL>>

RecRunning == proc = "running" /\ recSession.rec # "off"

\* The debugger engine sends one more well-framed packet on the connection,
\* or closes the connection.
engineSends ==
    /\ RecRunning
    /\ ~recSession.closed
    /\ \/ /\ recSession.pkts < MaxPackets
          /\ \E k \in 0..MaxTxn, pad \in 0..MaxPad :
                recSession' = [recSession EXCEPT
                                  !.wire = @ \o EngineFrame(EngineXml(k, pad)),
                                  !.pkts = @ + 1]
       \/ recSession' = [recSession EXCEPT !.closed = TRUE]
    /\ UNCHANGED <<session, rrStart, genCall>>

\* One turn of the loop of a connection's goroutine: conn.Read into buf, the
\* checks of the frame, and the reply.
startBasicDebuggerClient ==
    /\ RecRunning
    /\ recSession.lpc = "read"
    /\ IF recSession.wire = <<>>
       THEN /\ recSession.closed
            /\ recSession' = [recSession EXCEPT !.lpc = "done"]
            /\ UNCHANGED proc
       ELSE \E bytesRead \in 1..RecvBufLen :
            /\ bytesRead <= Len(recSession.wire)
            /\ LET buf == SubSeq(recSession.wire, 1, bytesRead)
                          \o SubSeq(recSession.buf, bytesRead + 1, RecvBufLen)
                   rest == SubSeq(recSession.wire, bytesRead + 1,
                                  Len(recSession.wire))
                   got == parseFrame(buf, bytesRead)
               IN IF got.fatal
                  THEN /\ recSession' = [recSession EXCEPT
                                            !.wire = rest, !.buf = buf,
                                            !.lpc = "fatal"]
                       /\ proc' = "fatal"
                  ELSE /\ recSession' =
                            [recSession EXCEPT
                                !.wire = rest, !.buf = buf, !.seq = @ + 1,
                                !.replies =
                                    Append(@, [xml |-> got.xml,
                                               cmd |-> runCommand(
                                                   recSession.seq + 1)])]
                       /\ UNCHANGED proc
    /\ UNCHANGED <<es, gdb, inflight, dpc, dwait, req, dloc, miLog, payload,
                   reverse, reverseSeen, opc, stdin, hist, rrStart, genCall>>

\* The process receives a SIGINT. While the channel is registered the runtime
\* offers the signal to it without blocking, and the channel has no buffer:
\* the signal is taken only by a goroutine that waits in <-c. Without a
\* registered channel the signal ends the process, and the offer to a channel
\* that is registered and already closed is a send on a closed channel, which
\* panics.
sigint ==
    /\ RecRunning
    /\ recSession.sigints < MaxSigints
    /\ IF recSession.notify /\ recSession.chanClosed
       THEN /\ recSession' = [recSession EXCEPT !.sigints = @ + 1]
            /\ proc' = "panic"
       ELSE IF recSession.notify
       THEN /\ recSession' = [recSession EXCEPT
                                 !.sigints = @ + 1,
                                 !.hpc = IF @ = "recv" THEN "write" ELSE @]
            /\ UNCHANGED proc
       ELSE /\ recSession' = [recSession EXCEPT !.sigints = @ + 1]
            /\ proc' = "killed"
    /\ UNCHANGED <<es, gdb, inflight, dpc, dwait, req, dloc, miLog, payload,
                   reverse, reverseSeen, opc, stdin, hist, rrStart, genCall>>

\* The goroutine that handles Ctrl+C: <-c, f.Write([]byte{3}), signal.Stop(c).
\* A receive from the closed channel returns at once, with the zero value.
handleCtrlC ==
    /\ RecRunning
    /\ \/ /\ recSession.hpc = "go"
          /\ recSession' = [recSession EXCEPT !.hpc = "recv"]
       \/ /\ recSession.hpc = "recv"
          /\ recSession.chanClosed
          /\ recSession' = [recSession EXCEPT !.hpc = "write"]
       \/ /\ recSession.hpc = "write"
          /\ recSession' = [recSession EXCEPT !.pty = @ + 1, !.hpc = "stop"]
       \/ /\ recSession.hpc = "stop"
          /\ recSession' = [recSession EXCEPT !.notify = FALSE, !.hpc = "done"]
    /\ UNCHANGED <<session, rrStart, genCall>>

\* The recording process (rr record php -S ...) terminates, with exit status
\* zero or not.
recordingEnds ==
    /\ RecRunning
    /\ recSession.rec = "running"
    /\ \E status \in {"exit0", "exit1"} :
          recSession' = [recSession EXCEPT !.rec = status]
    /\ UNCHANGED <<session, rrStart, genCall>>

\* recordSession.Wait() returns in the main goroutine: log.Fatal on an error,
\* which ends the process without running the deferred calls; otherwise
\* doRecordSession logs and returns, and its deferred close(c) runs.
doRecordSession ==
    /\ RecRunning
    /\ recSession.rec \in {"exit0", "exit1"}
    /\ IF recSession.rec = "exit0"
       THEN /\ recSession' = [recSession EXCEPT
                                 !.rec = "returned", !.chanClosed = TRUE]
            /\ UNCHANGED proc
       ELSE /\ proc' = "fatal"
            /\ UNCHANGED recSession
    /\ UNCHANGED <<es, gdb, inflight, dpc, dwait, req, dloc, miLog, payload,
                   reverse, reverseSeen, opc, stdin, hist, rrStart, genCall>>

\* Run of the record command returns after doRecordSession, main returns and
\* the process ends with code 0, whatever the other goroutines are doing.
recordCmdRun ==
    /\ RecRunning
    /\ recSession.rec = "returned"
    /\ proc' = "exited"
    /\ UNCHANGED <<es, gdb, inflight, dpc, dwait, req, dloc, miLog, payload,
                   reverse, reverseSeen, opc, stdin, hist, outside>>

\* The record command after signal.Notify and the two go statements, with
\* one connection of the engine accepted.
InitRecord ==
    /\ SessionAt(0, "off")
    /\ rrStart = NoReplayStart
    /\ recSession = [wire |-> <<>>, pkts |-> 0, closed |-> FALSE,
                     buf |-> [i \in 1..RecvBufLen |-> NUL], seq |-> 0,
                     replies |-> <<>>, lpc |-> "read", hpc |-> "go", pty |-> 0,
                     notify |-> TRUE, sigints |-> 0, rec |-> "running",
                     chanClosed |-> FALSE]
    /\ genCall = NoCall

NextRecord ==
    \/ engineSends
    \/ startBasicDebuggerClient
    \/ sigint
    \/ handleCtrlC
    \/ recordingEnds
    \/ doRecordSession
    \/ recordCmdRun

SpecRecord == InitRecord /\ [][NextRecord]_vars

\* -------------------------------------------------------- DBGp framing
\* Longest payload of which every content is tried.
MaxPayloadLen == 3

\* Length of the longest payload tried.
MaxLongPayload == 57

\* header_xml: <?xml version="1.0" encoding="iso-8859-1"?> and a newline.
header_xml ==
    <<"<", "?", "x", "m", "l", " ", "v", "e", "r", "s", "i", "o", "n", "=",
      "\"", "1", ".", "0", "\"", " ", "e", "n", "c", "o", "d", "i", "n", "g",
      "=", "\"", "i", "s", "o", "-", "8", "8", "5", "9", "-", "1", "\"", "?",
      ">", "\n">>

\* A framing whose declared length leaves the XML declaration header out.
constructDbgpPacketBare(x) ==
    ItoaBytes(Len(x)) \o <<NUL>> \o header_xml \o x
        \o <<NUL>>

constructDbgpPacket(x) ==
    ItoaBytes(Len(x) + Len(header_xml)) \o <<NUL>> \o header_xml \o x
        \o <<NUL>>

\* The bytes a payload is made of: markup, text, a digit and a NUL.
PayloadBytes == {"<", "x", "7", NUL}

\* The payloads tried: every string of up to MaxPayloadLen bytes, and longer
\* ones that carry the declared length from two digits to three.
Payloads ==
    UNION {[1..n -> PayloadBytes] : n \in 0..MaxPayloadLen}
        \cup {[i \in 1..n |-> "x"] : n \in 50..MaxLongPayload}

\* The frame of the payload is built.
framePacket ==
    /\ genCall.fn = "constructDbgpPacket"
    /\ genCall.pc = "call"
    /\ genCall' = [genCall EXCEPT !.out = constructDbgpPacket(genCall.in),
                                  !.pc = "return"]
    /\ UNCHANGED <<session, rrStart, recSession>>

\* The frame is parsed the way the record listener parses a packet it has
\* read whole.
parsePacket ==
    /\ genCall.fn = "constructDbgpPacket"
    /\ genCall.pc = "return"
    /\ genCall' = [genCall EXCEPT
                      !.back = parseFrame(genCall.out, Len(genCall.out)),
                      !.pc = "parsed"]
    /\ UNCHANGED <<session, rrStart, recSession>>

InitPacket ==
    /\ SessionAt(0, "off")
    /\ rrStart = NoReplayStart
    /\ recSession = NoRecordSession
    /\ \E x \in Payloads :
          genCall = [fn |-> "constructDbgpPacket", pc |-> "call", in |-> x,
                     out |-> <<>>, back |-> <<>>]

NextPacket == framePacket \/ parsePacket

SpecPacket == InitPacket /\ [][NextPacket]_vars

\* ----------------------------------------------------- the generate command
\* Path hashes are drawn from 1..MaxHash.
MaxHash == 4

\* Largest max_stack_depth tried.
MaxStackDepth == 2

dontbugCpathStartsAt == 6

phpFilenameSentinel == "//###"

levelSentinel == "//$$$"

numFilesSentinel == "NUM_FILES_SENTINEL"

maxStackDepthSentinel == "MAX_STACK_DEPTH_SENTINEL"

gBreakCskeletonHeader ==
    <<"\n", "/*", "\n", " * Copyright 2016 Sidharth Kshatriya", "\n", " *",
      "\n",
      " * Licensed under the Apache License, Version 2.0 (the \"License\");",
      "\n",
      " * you may not use this file except in compliance with the License.",
      "\n", " * You may obtain a copy of the License at", "\n", " *", "\n",
      " *   http://www.apache.org/licenses/LICENSE-2.0", "\n", " *", "\n",
      " * Unless required by applicable law or agreed to in writing, software",
      "\n",
      " * distributed under the License is distributed on an \"AS IS\" BASIS,",
      "\n",
      " * WITHOUT WARRANTIES OR CONDITIONS OF ANY KIND, either express or implied.",
      "\n",
      " * See the License for the specific language governing permissions and",
      "\n", " * limitations under the License.", "\n", " */", "\n", "\n",
      "/**", "\n", " * This file was autogenerated by dontbug on ",
      "<time.Now()>", "\n",
      " * IMPORTANT -- DO NOT remove/edit/move comments with ### or $$$ or &&&",
      "\n", " */", "\n", "#include \"php.h\"", "\n",
      "#include \"php_dontbug.h\"", "\n", "\n",
      "void dontbug_break_location(zend_string* zfilename, zend_execute_data *execute_data, int lineno, unsigned long level) {",
      "\n", "    zend_ulong hash = zfilename->h;", "\n",
      "    char *filename = ZSTR_VAL(zfilename);", "\n">>

gBreakCskeletonFooter ==
    <<"\n", "}", "\n">>

gLevelLocationHeader ==
    <<"\n",
      "void dontbug_level_location(unsigned long level, char* filename, int lineno) {",
      "\n", "    int count = 0;", "\n">>

gLevelLocationFooter ==
    <<"\n", "}", "\n">>

\* Texts are sequences of pieces, a piece being a string that no operation of
\* the model has to cut; a line break is always a piece of its own.
\* The script paths the scanner can come up with: plain ones, one with a
\* space and one with a line break in a directory name.
ScriptPaths ==
    {<<"/srv/", "a", ".php">>,
     <<"/srv/", "b", ".module">>,
     <<"/srv/", "c", " ", "d/", "e", ".install">>,
     <<"/srv/", "f", "\n", "g/", "h", ".php">>}

\* The ascending list of the numbers of a set (sort.Sort of a myUintArray).
RECURSIVE Sorted(_)
Sorted(S) ==
    IF S = {} THEN <<>>
    ELSE LET least == CHOOSE x \in S : \A y \in S : x <= y
         IN <<least>> \o Sorted(S \ {least})

\* makeMap on the files found, hashOf giving the hash of each: fatal on a
\* collision and on no file, else the sorted hashes and the map from a hash to
\* the list of its file.
makeMap(hashOf) ==
    LET files == DOMAIN hashOf
        hashes == {hashOf[f] : f \in files}
    IN IF \E f, g \in files : f # g /\ hashOf[f] = hashOf[g]
       THEN [fatal |-> TRUE, ar |-> <<>>, m |-> <<>>]
       ELSE IF files = {}
       THEN [fatal |-> TRUE, ar |-> <<>>, m |-> <<>>]
       ELSE [fatal |-> FALSE, ar |-> Sorted(hashes),
             m |-> [h \in hashes |-> <<CHOOSE f \in files : hashOf[f] = h>>]]

\* strings.Repeat(" ", n)
RECURSIVE s(_)
s(n) == IF n = 0 THEN "" ELSE " " \o s(n - 1)

ifThenElse(ifc, ifb, elseifc, elseifb, elseb, indent) ==
    <<s(indent), "if (">> \o ifc \o <<") {", "\n">>
        \o ifb
        \o <<s(indent), "} else if (">> \o elseifc \o <<") {", "\n">>
        \o elseifb
        \o <<s(indent), "} else {", "\n">>
        \o elseb
        \o <<s(indent), "}", "\n">>

ifThen(ifc, ifb, elseb, indent) ==
    <<s(indent), "if (">> \o ifc \o <<") {", "\n">>
        \o ifb
        \o <<s(indent), "} else {", "\n">>
        \o elseb
        \o <<s(indent), "}", "\n">>

eq(rhs) == <<"hash == Z_UL(", Itoa(rhs), ")">>

lt(rhs) == <<"hash < Z_UL(", Itoa(rhs), ")">>

foundHash(hash, matchingFiles, indent) ==
    <<s(indent), "// hash == ", Itoa(hash), "\n">>
        \o <<s(indent), "return; ", phpFilenameSentinel, " ">>
        \o matchingFiles[1] \o <<"\n">>

\* A search tree that sends the smaller hashes to the right: the two recursive
\* calls have changed places.
RECURSIVE generateBreakHelperSwapped(_, _, _, _, _)
generateBreakHelperSwapped(arr, m, low, high, indent) ==
    LET mid == (high + low) \div 2
    IN IF high = low
       THEN foundHash(arr[low + 1], m[arr[low + 1]], indent)
       ELSE IF mid = low
       THEN ifThen(eq(arr[mid + 1]),
                   foundHash(arr[mid + 1], m[arr[mid + 1]], indent + 4),
                   foundHash(arr[high + 1], m[arr[high + 1]], indent + 4),
                   indent)
       ELSE ifThenElse(eq(arr[mid + 1]),
                       foundHash(arr[mid + 1], m[arr[mid + 1]], indent + 4),
                       lt(arr[mid + 1]),
                       generateBreakHelperSwapped(arr, m, mid + 1, high,
                                                  indent + 4),
                       generateBreakHelperSwapped(arr, m, low, mid - 1,
                                                  indent + 4),
                       indent)

\* arr is indexed from 0 in the code and from 1 here.
RECURSIVE generateBreakHelper(_, _, _, _, _)
generateBreakHelper(arr, m, low, high, indent) ==
    LET mid == (high + low) \div 2
    IN IF high = low
       THEN foundHash(arr[low + 1], m[arr[low + 1]], indent)
       ELSE IF mid = low
       THEN ifThen(eq(arr[mid + 1]),
                   foundHash(arr[mid + 1], m[arr[mid + 1]], indent + 4),
                   foundHash(arr[high + 1], m[arr[high + 1]], indent + 4),
                   indent)
       ELSE ifThenElse(eq(arr[mid + 1]),
                       foundHash(arr[mid + 1], m[arr[mid + 1]], indent + 4),
                       lt(arr[mid + 1]),
                       generateBreakHelper(arr, m, low, mid - 1, indent + 4),
                       generateBreakHelper(arr, m, mid + 1, high, indent + 4),
                       indent)

generateFileBreakBody(arr, m) == generateBreakHelper(arr, m, 0, Len(arr) - 1, 4)

RECURSIVE generateLocBodyFrom(_, _)
generateLocBodyFrom(level, maxStackDepth) ==
    IF level >= maxStackDepth THEN <<>>
    ELSE <<"    if (level <= ", Itoa(level), ") {", "\n",
           "        count++; ", levelSentinel, " ", Itoa(level), "\n",
           "    }", "\n">>
         \o generateLocBodyFrom(level + 1, maxStackDepth)

generateLocBody(maxStackDepth) == generateLocBodyFrom(0, maxStackDepth)

\* What generateBreakFile writes into dontbug_break.c.
generateBreakFile(ar, m, skelHeader, skelFooter, skelLocHeader, skelLocFooter, maxStackDepth) ==
    <<numFilesSentinel, Itoa(Len(ar)), "\n">>
        \o <<maxStackDepthSentinel, Itoa(maxStackDepth), "\n">>
        \o skelHeader \o <<"\n">>
        \o generateFileBreakBody(ar, m) \o <<"\n">>
        \o skelFooter \o <<"\n">>
        \o skelLocHeader \o <<"\n">>
        \o generateLocBody(maxStackDepth) \o <<"\n">>
        \o skelLocFooter \o <<"\n">>

\* The lines of a text, each with its line break, as bufio's ReadString('\n')
\* returns them one after the other; bytes after the last line break are the
\* line that comes with io.EOF.
ReadLines(text) ==
    LET breaks == SelectSeq([i \in 1..Len(text) |-> i],
                            LAMBDA i : text[i] = "\n")
        Start(k) == IF k = 1 THEN 1 ELSE breaks[k - 1] + 1
        End(k) == IF k > Len(breaks) THEN Len(text) ELSE breaks[k]
    IN [k \in 1..(Len(breaks) + 1) |-> SubSeq(text, Start(k), End(k))]

\* strings.Index(line, sep) for a separator that is one piece: the first
\* place of the piece, 0 when it does not occur.
IndexOfPiece(line, sep) ==
    IF \E i \in 1..Len(line) : line[i] = sep
    THEN CHOOSE i \in 1..Len(line) :
            line[i] = sep /\ \A j \in 1..(i - 1) : line[j] # sep
    ELSE 0

\* text[n:] for a number n of bytes that ends at the end of a piece.
RECURSIVE DropBytes(_, _)
DropBytes(text, n) ==
    IF n <= 0 \/ text = <<>> THEN text
    ELSE DropBytes(Tail(text), n - Len(Head(text)))

IsSpace(piece) == piece \in {"", " ", "\n", "\t", "\r"}

\* strings.TrimSpace
RECURSIVE TrimSpace(_)
TrimSpace(text) ==
    IF text = <<>> THEN text
    ELSE IF IsSpace(Head(text)) THEN TrimSpace(Tail(text))
    ELSE IF IsSpace(text[Len(text)])
    THEN TrimSpace(SubSeq(text, 1, Len(text) - 1))
    ELSE text

\* constructBreakpointLocMap on the text of dontbug_break.c: the entries it
\* assigns, in the order of the lines. The last read, the one that ends with
\* io.EOF, counts as a line and is not looked at.
BreakpointLocEntries(text) ==
    LET lines == ReadLines(text)
        Found(lineno) == IndexOfPiece(lines[lineno], phpFilenameSentinel) # 0
        Entry(lineno) ==
            LET line == lines[lineno]
                index == IndexOfPiece(line, phpFilenameSentinel)
            IN [filename |->
                    TrimSpace(<<"file://">>
                        \o DropBytes(SubSeq(line, index, Len(line)),
                                     dontbugCpathStartsAt)),
                lineno |-> lineno]
        matches == SelectSeq([lineno \in 1..(Len(lines) - 1) |-> lineno], Found)
    IN [total |-> Len(lines) - 1,
        entries |-> [i \in 1..Len(matches) |-> Entry(matches[i])]]

\* bpLocMap: a later assignment to a key replaces an earlier one.
constructBreakpointLocMap(text) ==
    LET es0 == BreakpointLocEntries(text).entries
        keys == {es0[i].filename : i \in 1..Len(es0)}
    IN [k \in keys |->
           es0[CHOOSE i \in 1..Len(es0) :
                  es0[i].filename = k
                  /\ \A j \in (i + 1)..Len(es0) : es0[j].filename # k].lineno]

\* ---- the C of dontbug_break_location, as the compiler reads it
\* The kind of statement on a line of the generated body.
StatementKind(line) ==
    IF Len(line) < 3 THEN "junk"
    ELSE IF line[2] = "// hash == " THEN "comment"
    ELSE IF line[2] = "return; " THEN "return"
    ELSE IF line[2] = "if (" THEN "if"
    ELSE IF line[2] = "} else if (" THEN "elseif"
    ELSE IF line[2] = "} else {" THEN "else"
    ELSE IF line[2] = "}" THEN "close"
    ELSE "junk"

\* Z_UL(<numeral>)
Literal(numeral) == CHOOSE n \in 0..99 : Itoa(n) = numeral

\* The condition of an if or else-if line at the given hash.
Condition(line, hash) ==
    IF line[3] = "hash == Z_UL(" THEN hash = Literal(line[4])
    ELSE hash < Literal(line[4])

\* The line that ends the block opened by line i: the matching else-if, else
\* or closing brace.
RECURSIVE BlockEnd(_, _, _)
BlockEnd(lines, j, depth) ==
    IF j > Len(lines) THEN j
    ELSE LET kind == StatementKind(lines[j])
         IN IF kind = "if" THEN BlockEnd(lines, j + 1, depth + 1)
            ELSE IF kind \in {"elseif", "else"} /\ depth = 0 THEN j
            ELSE IF kind = "close" /\ depth = 0 THEN j
            ELSE IF kind = "close" THEN BlockEnd(lines, j + 1, depth - 1)
            ELSE BlockEnd(lines, j + 1, depth)

\* Execution of the body from line i on: the line of the return statement it
\* reaches, 0 when it runs off the end.
RECURSIVE Execute(_, _, _)
Execute(lines, i, hash) ==
    IF i > Len(lines) THEN 0
    ELSE LET kind == StatementKind(lines[i])
         IN IF kind = "return" THEN i
            ELSE IF kind \in {"if", "elseif"}
            THEN IF Condition(lines[i], hash) THEN Execute(lines, i + 1, hash)
                 ELSE LET j == BlockEnd(lines, i + 1, 0)
                      IN IF j <= Len(lines) /\ StatementKind(lines[j]) = "elseif"
                         THEN Execute(lines, j, hash)
                         ELSE Execute(lines, j + 1, hash)
            ELSE Execute(lines, i + 1, hash)

\* The lines of the body, without the line that ends the text.
BodyLines(body) ==
    LET lines == ReadLines(body) IN SubSeq(lines, 1, Len(lines) - 1)

GenAt(fn, pc) == proc = "running" /\ genCall.fn = fn /\ genCall.pc = pc

\* generateBreakFile up to the return of makeMap.
generateMakeMap ==
    /\ GenAt("generateBreakFile", "call")
    /\ LET made == makeMap(genCall.in.hashOf)
       IN IF made.fatal
          THEN /\ proc' = "fatal"
               /\ UNCHANGED genCall
          ELSE /\ genCall' = [genCall EXCEPT !.pc = "mapped",
                                             !.out.ar = made.ar,
                                             !.out.m = made.m]
               /\ UNCHANGED proc
    /\ UNCHANGED <<es, gdb, inflight, dpc, dwait, req, dloc, miLog, payload,
                   reverse, reverseSeen, opc, stdin, hist, rrStart, recSession>>

\* generateBreakFile from the first Fprintf on: dontbug_break.c is written.
generateWrite ==
    /\ GenAt("generateBreakFile", "mapped")
    /\ genCall' = [genCall EXCEPT
                      !.pc = "written",
                      !.out.file = generateBreakFile(
                          genCall.out.ar, genCall.out.m,
                          gBreakCskeletonHeader, gBreakCskeletonFooter,
                          gLevelLocationHeader, gLevelLocationFooter,
                          genCall.in.maxStackDepth)]
    /\ UNCHANGED <<session, rrStart, recSession>>

\* A replay reads the dontbug_break.c that has been written.
readBreakpointLocMap ==
    /\ GenAt("generateBreakFile", "written")
    /\ genCall' = [genCall EXCEPT
                      !.pc = "read",
                      !.back = constructBreakpointLocMap(genCall.out.file)]
    /\ UNCHANGED <<session, rrStart, recSession>>

InitGenerate ==
    /\ SessionAt(0, "off")
    /\ rrStart = NoReplayStart
    /\ recSession = NoRecordSession
    /\ \E files \in SUBSET ScriptPaths, maxStackDepth \in 0..MaxStackDepth :
       \E hashOf \in [files -> 1..MaxHash] :
          genCall = [fn |-> "generateBreakFile", pc |-> "call",
                     in |-> [hashOf |-> hashOf, maxStackDepth |-> maxStackDepth],
                     out |-> [ar |-> <<>>, m |-> <<>>, file |-> <<>>],
                     back |-> <<>>]

NextGenerate == generateMakeMap \/ generateWrite \/ readBreakpointLocMap

SpecGenerate == InitGenerate /\ [][NextGenerate]_vars

\* ---- the search tree alone
\* Hashes of the search trees tried are drawn from 1..MaxTreeHash.
MaxTreeHash == 7

\* The path of the file with hash h.
PathOfHash(h) == <<"/srv/", Itoa(h), ".php">>

\* generateFileBreakBody builds the body for the sorted hashes.
buildFileBreakBody ==
    /\ GenAt("generateFileBreakBody", "call")
    /\ genCall' = [genCall EXCEPT
                      !.pc = "built",
                      !.out = generateFileBreakBody(genCall.in.ar, genCall.in.m)]
    /\ UNCHANGED <<session, rrStart, recSession>>

\* The compiled dontbug_break_location runs on a file name with the given
\* hash.
dontbug_break_location ==
    /\ GenAt("generateFileBreakBody", "built")
    /\ \E hash \in 0..(MaxTreeHash + 1) :
          genCall' = [genCall EXCEPT
                         !.pc = "ran",
                         !.back = [hash |-> hash,
                                   leaf |-> Execute(BodyLines(genCall.out), 1,
                                                    hash)]]
    /\ UNCHANGED <<session, rrStart, recSession>>

InitBreakTree ==
    /\ SessionAt(0, "off")
    /\ rrStart = NoReplayStart
    /\ recSession = NoRecordSession
    /\ \E hashes \in (SUBSET (1..MaxTreeHash)) \ {{}} :
          genCall = [fn |-> "generateFileBreakBody", pc |-> "call",
                     in |-> [ar |-> Sorted(hashes),
                             m |-> [h \in hashes |-> <<PathOfHash(h)>>]],
                     out |-> <<>>,
                     back |-> [hash |-> 0, leaf |-> 0]]

NextBreakTree == buildFileBreakBody \/ dontbug_break_location

SpecBreakTree == InitBreakTree /\ [][NextBreakTree]_vars

\* ---- djbx33a
\* Longest byte string of which every content is tried.
MaxStrLen == 3

\* Length of the longest byte string tried.
MaxLongStr == 17

\* An unsigned integer of the code is a list of 16-bit limbs, lowest first:
\* four limbs for a uint64, two for a uint32.
LimbBase == 65536

\* var hash = 5381 in limbs limbs.
Seed(limbs) == [k \in 1..limbs |-> IF k = 1 THEN 5381 ELSE 0]

\* hash << 5: the bits pushed out of the top limb are lost.
ShiftLeft5(h) ==
    [k \in 1..Len(h) |->
        ((h[k] * 32) % LimbBase) + (IF k = 1 THEN 0 ELSE h[k - 1] \div 2048)]

\* a + b + carry from limb k on, modulo 2^(16 * limbs).
RECURSIVE AddFrom(_, _, _, _)
AddFrom(a, b, k, carry) ==
    IF k > Len(a) THEN <<>>
    ELSE <<(a[k] + b[k] + carry) % LimbBase>>
         \o AddFrom(a, b, k + 1, (a[k] + b[k] + carry) \div LimbBase)

Add(a, b) == AddFrom(a, b, 1, 0)

\* uint64(c) / uint32(c) for a byte c.
Widen(c, limbs) == [k \in 1..limbs |-> IF k = 1 THEN c ELSE 0]

\* hash | (1 << 63), hash | (1 << 31)
SetTopBit(h) ==
    [h EXCEPT ![Len(h)] = IF @ >= LimbBase \div 2 THEN @ ELSE @ + LimbBase \div 2]

\* hash = ((hash << 5) + hash) + uint(byteStr[i]); i++.  The index is noted
\* in reads; an index outside the string is a panic of the Go run time.
HashStep(st) ==
    IF st.i >= Len(st.byteStr)
    THEN [st EXCEPT !.panic = TRUE, !.i = @ + 1]
    ELSE [st EXCEPT
             !.hash = Add(Add(ShiftLeft5(@), @),
                          Widen(st.byteStr[st.i + 1], Len(st.hash))),
             !.reads = Append(@, st.i),
             !.i = @ + 1]

\* for j := 0; j < 8; j++ { ... }
RECURSIVE BlockLoop(_, _)
BlockLoop(st, j) == IF j < 8 THEN BlockLoop(HashStep(st), j + 1) ELSE st

\* for ; length >= 8; length = length - 8 { ... }
RECURSIVE OuterLoop(_)
OuterLoop(st) ==
    IF st.length >= 8
    THEN OuterLoop([BlockLoop(st, 0) EXCEPT !.length = @ - 8])
    ELSE st

\* A tail loop that leaves the last byte out.
RECURSIVE TailLoopShort(_, _)
TailLoopShort(st, j) ==
    IF j >= 2 THEN TailLoopShort(HashStep(st), j - 1) ELSE st

\* for j := length; j >= 1; j-- { ... }
RECURSIVE TailLoop(_, _)
TailLoop(st, j) ==
    IF j >= 1 THEN TailLoop(HashStep(st), j - 1) ELSE st

\* The body the two functions share, for an unsigned integer of limbs limbs.
djbx33a(byteStr, limbs) ==
    LET start == [byteStr |-> byteStr, hash |-> Seed(limbs), i |-> 0,
                  length |-> Len(byteStr), reads |-> <<>>, panic |-> FALSE]
        blocks == OuterLoop(start)
        done == TailLoop(blocks, blocks.length)
    IN [hash |-> SetTopBit(done.hash), reads |-> done.reads,
        panic |-> done.panic]

djbx33a64(byteStr) == djbx33a(byteStr, 4)

djbx33a32(byteStr) == djbx33a(byteStr, 2)

\* The bytes strings are made of.
HashBytes == {0, 47, 97, 255}

HashByteList == <<0, 47, 97, 255>>

\* The byte strings tried: every string of up to MaxStrLen bytes, and longer
\* ones, up to MaxLongStr bytes, that repeat the bytes in several orders.
ByteStrings ==
    UNION {[1..n -> HashBytes] : n \in 0..MaxStrLen}
        \cup {[i \in 1..n |-> HashByteList[((i * step + first) % 4) + 1]] :
                n \in 4..MaxLongStr, step \in {1, 3}, first \in 0..3}

\* djbx33a64 is applied to the string.
hash64 ==
    /\ genCall.fn = "djbx33a"
    /\ genCall.pc = "call"
    /\ genCall' = [genCall EXCEPT !.pc = "return64",
                                  !.out = djbx33a64(genCall.in)]
    /\ UNCHANGED <<session, rrStart, recSession>>

\* djbx33a32 is applied to the string.
hash32 ==
    /\ genCall.fn = "djbx33a"
    /\ genCall.pc = "call"
    /\ genCall' = [genCall EXCEPT !.pc = "return32",
                                  !.out = djbx33a32(genCall.in)]
    /\ UNCHANGED <<session, rrStart, recSession>>

InitHash ==
    /\ SessionAt(0, "off")
    /\ rrStart = NoReplayStart
    /\ recSession = NoRecordSession
    /\ \E byteStr \in ByteStrings :
          genCall = [fn |-> "djbx33a", pc |-> "call", in |-> byteStr,
                     out |-> <<>>, back |-> <<>>]

NextHash == hash64 \/ hash32

SpecHash == InitHash /\ [][NextHash]_vars

\* ================================================================ claims
\* The read loop accepts a command: it leaves ReadString for a handler.
Accepts == DRunning("read") /\ dpc' # "read"

\* C1: once a command has been accepted, the next command that is accepted
\* carries a sequence number strictly greater than the last accepted one (an
\* equal number aborts), so the accepted sequence numbers strictly increase.
C1_SequenceStrictlyIncreasing ==
    [][(Accepts /\ hist.accepted) => req'.Sequence > es.LastSequenceNum]_vars

\* C2: a step in which the dispatcher receives a result that is not of class
\* "done" leaves the breakpoint table as it was.
C2_TableEditOnlyOnDone ==
    [][(dwait /\ ~dwait' /\ gdb'.faults # gdb.faults)
          => es'.Breakpoints = es.Breakpoints]_vars

SuspendFreeCommands == {"eval", "stack_get", "stack_depth", "context_names", "context_get"}

\* C3: when the reply of a suspend-free command is ready, the breakpoints
\* enabled in the table and in gdb are those enabled when it was dispatched,
\* the empty set included.
C3_SuspendFreeKeepsEnabledSet ==
    (dpc = "write" /\ req.Command \in SuspendFreeCommands)
        => /\ EnabledInTable = dloc.preTable
           /\ EnabledInGdb = dloc.preGdb

Mi(op, args) == [op |-> op, args |-> args]

ReverseArgs(rev) == IF rev THEN <<"--reverse">> ELSE <<>>

\* C4: a step_into request has sent, in this order, break-disable of all,
\* break-enable of "1", exec-continue with --reverse exactly when the
\* direction flag was reverse at its dispatch, break-disable of "1", and the
\* evaluations of filename and lineno; and while its exec-continue is
\* outstanding "1" is the only breakpoint enabled in gdb.
C4_StepIntoOrder ==
    /\ (dpc = "write" /\ req.Command = "step_into")
          => miLog = <<Mi("break-disable", <<>>),
                       Mi("break-enable", <<dontbugMasterBp>>),
                       Mi("exec-continue", ReverseArgs(dloc.flag)),
                       Mi("break-disable", <<dontbugMasterBp>>),
                       Mi("data-evaluate-expression", <<"filename">>),
                       Mi("data-evaluate-expression", <<"lineno">>)>>
    /\ (dpc = "si.continue" /\ dwait) => EnabledInGdb = {dontbugMasterBp}

\* C5: after a forward step_into from script location A to the next location,
\* one toggle of the direction flag and a second step_into, the reply of the
\* second step_into carries the file and the line of A.
C5_ToggleStepsBack ==
    (dpc = "write" /\ hist.phase = "second")
        => /\ payload.filename = EntryFileChars
           /\ payload.lineno = Itoa(LineAt(hist.a))

\* C6: a step_over request has sent, in this order, break-disable of all, the
\* evaluation of level giving L, break-insert of a temporary breakpoint with
\* condition "level <= L", exec-continue (--reverse exactly when the direction
\* is reverse) and break-delete of the id break-insert returned; that id is
\* never in the table, and is not in gdb when the reply is ready.
C6_StepOverOrder ==
    /\ (dpc = "write" /\ req.Command = "step_over")
          => /\ Len(miLog) >= 5
             /\ SubSeq(miLog, 1, 5) =
                    <<Mi("break-disable", <<>>),
                      Mi("data-evaluate-expression", <<"level">>),
                      Mi("break-insert",
                         <<"-t", "-f", "-c", "level <= " \o dloc.level,
                           "--source", "dontbug.c", "--line", Itoa(dontbugCstepLineNum)>>),
                      Mi("exec-continue", ReverseArgs(dloc.flag)),
                      Mi("break-delete", <<dloc.id>>)>>
             /\ dloc.id \notin DOMAIN gdb.bps
    /\ (req.Command = "step_over" /\ dloc.id # "") => dloc.id \notin DOMAIN es.Breakpoints

\* C7: between the construction of the engine state and the first command,
\* and between commands, breakpoint "1" exists and is disabled in gdb and in
\* the table; gdb has it enabled only between the break-enable and the
\* break-disable of a step_into.
C7_MasterBreakpointDisabledAtRest ==
    /\ dpc \in {"dial", "read"}
          => /\ dontbugMasterBp \in DOMAIN gdb.bps
             /\ ~gdb.bps[dontbugMasterBp].enabled
             /\ dontbugMasterBp \in DOMAIN es.Breakpoints
             /\ es.Breakpoints[dontbugMasterBp].State = breakpointStateDisabled
    /\ (dontbugMasterBp \in DOMAIN gdb.bps /\ gdb.bps[dontbugMasterBp].enabled)
          => dpc \in {"si.enable", "si.continue", "si.disable"}

\* C8: every gdb/mi command in flight was sent by the dispatcher, and gdb's
\* session was not ended by the operator goroutine.
C8_OnlyDispatcherWritesGdb ==
    /\ \A c \in inflight : c.by = "dispatcher"
    /\ gdb.exit # "operator"

\* C9: at most one gdb/mi command is outstanding.
C9_OneCommandInFlight == Cardinality(inflight) <= 1

\* C10: a step of the operator goroutine changes none of the feature table,
\* the breakpoint table, the source map, the last sequence number, the status
\* and the reason of the engine state, and of the variables the dispatcher
\* reads it writes the direction flag only.
C10_OperatorFrame ==
    [][OperatorNext(PlainOperatorLines) =>
          /\ es'.FeatureMap = es.FeatureMap
          /\ es'.Breakpoints = es.Breakpoints
          /\ es'.SourceMap = es.SourceMap
          /\ es'.LastSequenceNum = es.LastSequenceNum
          /\ es'.Status = es.Status
          /\ es'.Reason = es.Reason
          /\ UNCHANGED <<es, dpc, dwait, req, dloc, miLog, payload>>]_vars

\* The operator toggled the direction and then quit a session in which the
\* IDE had set a feature.
C10_Witness ==
    /\ gdb.exit = "operator"
    /\ reverse
    /\ hist.accepted
    /\ es.FeatureMap["max_depth"].Value = 5

\* The dispatcher receives a result that is not of class "done".
AnswerNotDone == dwait /\ ~dwait' /\ gdb'.faults # gdb.faults

\* C11: a step in which a gdb/mi command of the dispatcher is answered with a
\* class other than "done" (break-insert, break-enable, break-disable,
\* break-delete, exec-continue, gdb-set, data-evaluate-expression, the startup
\* commands included) aborts the process.
C11_NotDoneAborts ==
    [][AnswerNotDone => proc' = "fatal"]_vars

\* The reply of a breakpoint_set request is about to be written.
LineBreakpointSet == dpc = "write" /\ req.Command = "breakpoint_set"

\* C12: when a breakpoint_set -t line succeeds the table has gained exactly
\* one entry, under the number gdb returned; its Id is that number, its
\* Filename and Lineno are the -f and -n of the request, its Type is line and
\* it is not temporary; the reply carries that number; every entry the table
\* had before is unchanged. In every state each key of the table is the Id of
\* its entry.
C12_LineBreakpointAdded ==
    /\ \A id \in DOMAIN es.Breakpoints : es.Breakpoints[id].Id = id
    /\ LineBreakpointSet =>
         /\ dloc.id \notin DOMAIN dloc.preEs.Breakpoints
         /\ dloc.id \in DOMAIN gdb.bps
         /\ DOMAIN es.Breakpoints = DOMAIN dloc.preEs.Breakpoints \cup {dloc.id}
         /\ \A id \in DOMAIN dloc.preEs.Breakpoints :
              es.Breakpoints[id] = dloc.preEs.Breakpoints[id]
         /\ es.Breakpoints[dloc.id].Id = dloc.id
         /\ es.Breakpoints[dloc.id].Filename = req.Options["f"]
         /\ Itoa(es.Breakpoints[dloc.id].Lineno) = req.Options["n"]
         /\ es.Breakpoints[dloc.id].Type = breakpointTypeLine
         /\ ~es.Breakpoints[dloc.id].Temporary
         /\ payload.id = dloc.id

\* A second line breakpoint has been added next to an earlier one.
C12_Witness ==
    /\ LineBreakpointSet
    /\ req.Options["t"] = "line"
    /\ \E id \in DOMAIN dloc.preEs.Breakpoints :
         dloc.preEs.Breakpoints[id].Type = breakpointTypeLine

\* The request asks for a disabled breakpoint.
AsksDisabled == "s" \in DOMAIN req.Options /\ req.Options["s"] = "disabled"

\* C13: a breakpoint_set with -s disabled has sent its break-insert with -d
\* and recorded the state disabled; without -s, or with another value, the
\* break-insert has no -d and the recorded state is enabled.
C13_DisabledOption ==
    LineBreakpointSet =>
        /\ Len(miLog) = 1 /\ miLog[1].op = "break-insert"
        /\ ("-d" \in Range(miLog[1].args)) = AsksDisabled
        /\ es.Breakpoints[dloc.id].State =
              IF AsksDisabled THEN breakpointStateDisabled ELSE breakpointStateEnabled

\* The -f of the breakpoint_set request being handled is not a key of the
\* breakpoint location map.
UnmappedFile ==
    /\ req.Command = "breakpoint_set"
    /\ "f" \in DOMAIN req.Options
    /\ req.Options["f"] \notin DOMAIN es.SourceMap

\* C14: while a breakpoint_set for a file that is not in the breakpoint
\* location map is handled, no gdb/mi command is sent, the table is not
\* changed and no reply is produced; the step at the lookup aborts the process.
C14_UnmappedFileAborts ==
    [][/\ UnmappedFile' =>
            /\ miLog' = <<>> /\ ~dwait'
            /\ es'.Breakpoints = dloc'.preEs.Breakpoints
            /\ payload' = NoPayload
            /\ dpc' \in {"breakpoint_set", "bp.line", "bp.insert"}
       /\ UnmappedFile /\ dpc = "bp.insert" => proc' = "fatal"]_vars

\* The lookup of an unmapped file has aborted the process.
C14_Witness ==
    UnmappedFile /\ dpc = "bp.insert" /\ proc = "fatal" /\ miLog = <<>>

\* The feature_set request about to be handled names a feature that is not
\* in the table or that is read-only.
UnknownOrReadOnly ==
    /\ dpc = "feature_set" /\ proc = "running"
    /\ "n" \in DOMAIN req.Options
    /\ \/ req.Options["n"] \notin DOMAIN es.FeatureMap
       \/ es.FeatureMap[req.Options["n"]].ReadOnly

\* C15: handling a feature_set that names an unknown or a read-only feature
\* aborts the process and leaves every value of the feature table unchanged;
\* in every state each read-only feature has the value it was seeded with.
C15_ReadOnlyFeaturesKept ==
    [][/\ UnknownOrReadOnly => proc' = "fatal" /\ es'.FeatureMap = es.FeatureMap
       /\ \A k \in DOMAIN es'.FeatureMap :
            es'.FeatureMap[k].ReadOnly => es'.FeatureMap[k] = initFeatureMap[k]]_vars

\* A feature_set of a read-only feature has aborted the process.
C15_Witness ==
    /\ dpc = "feature_set" /\ proc = "fatal"
    /\ req.Options["n"] = "language_name"
    /\ es.FeatureMap = initFeatureMap

\* The reply of a feature_set request is about to be written.
FeatureWasSet == dpc = "write" /\ req.Command = "feature_set"

\* What a successful feature_set leaves besides the value it sets: the other
\* features as they were, and a reply that names the feature with success 1.
FeatureSetFrame ==
    /\ \A k \in DOMAIN es.FeatureMap \ {req.Options["n"]} :
         es.FeatureMap[k] = dloc.preEs.FeatureMap[k]
    /\ payload.command = "feature_set"
    /\ payload.feature = req.Options["n"]
    /\ payload.success = "1"

\* C16 as stated: after a successful feature_set -n k -v v the rendered value
\* of k is v, every other feature is unchanged and the reply carries
\* feature = k, success = 1 and the transaction id of the request.
C16_SetRendersValue ==
    FeatureWasSet =>
        /\ FeatureString(es.FeatureMap[req.Options["n"]]) = req.Options["v"]
        /\ FeatureSetFrame
        /\ payload.transaction_id = req.Options["i"]

\* C16: after a successful feature_set -n k -v v the rendered value of k is
\* the decimal numeral of the number v denotes (v itself for "0" and "1" of a
\* bool feature), every other feature is unchanged and the reply carries
\* feature = k, success = 1 and the decimal numeral of the transaction id.
C16_SetRendersNumber ==
    FeatureWasSet =>
        /\ ~es.FeatureMap[req.Options["n"]].ReadOnly
        /\ FeatureString(es.FeatureMap[req.Options["n"]]) =
              IF es.FeatureMap[req.Options["n"]].kind = "int"
              THEN ToString(Atoi(req.Options["v"]))
              ELSE req.Options["v"]
        /\ FeatureSetFrame
        /\ payload.transaction_id = ToString(Atoi(req.Options["i"]))

\* max_depth has been set with a value that is not written the way it is
\* rendered.
C16_Witness ==
    /\ FeatureWasSet
    /\ req.Options["n"] = "max_depth"
    /\ req.Options["v"] = "05"
    /\ es.FeatureMap["max_depth"].Value = 5

\* conn.Write of the loop is taken.
WritesReply == dpc = "write" /\ dpc' = "read"

\* C17: the dispatcher takes a request from the socket only when no request
\* is being handled and no reply is waiting to be written; it leaves a request
\* only by writing a reply; a handler produces one reply per request; and the
\* reply written is the one produced for the request taken last (it carries
\* its command and, where the handler formats one, its transaction id). So
\* the k-th reply written answers the k-th request, and request k+1 is not
\* started before reply k is written.
C17_RepliesInOrder ==
    [][/\ (req' # req /\ req' # NoRequest) =>
            req = NoRequest /\ dpc = "read" /\ payload = NoPayload
       /\ (req # NoRequest /\ req' # req) => WritesReply /\ req' = NoRequest
       /\ (payload' # payload /\ payload' # NoPayload) =>
            req # NoRequest /\ req' = req /\ payload = NoPayload
       /\ WritesReply =>
            /\ payload # NoPayload
            /\ payload.command = req.Command
            /\ "transaction_id" \in DOMAIN payload =>
                  payload.transaction_id = Itoa(req.Sequence)
            /\ payload' = NoPayload]_vars

\* The reply of a status request that follows an answered feature_set is
\* about to be written.
C17_Witness ==
    /\ dpc = "write" /\ proc = "running"
    /\ req.Command = "status"
    /\ payload.transaction_id = Itoa(req.Sequence)
    /\ es.FeatureMap["max_depth"].Value = 5

\* A command of the standard family is being handled.
StandardFamily == req.Command \in {"typemap_get", "property_get", "property_value"}

C20_FlagIsParityOfTLines == reverse = hist.tOdd

\* The gdb/mi commands of replay startup, in the order of the claim.
StartupCommands ==
    <<Mi("break-insert", <<"-f", "-d", "--source", "dontbug.c", "--line", "95">>),
      Mi("break-insert", <<"-t", "-f", "--source", "dontbug.c", "--line", "92">>),
      Mi("gdb-set", <<"print", "elements", "0">>),
      Mi("exec-continue", <<>>),
      Mi("data-evaluate-expression", <<"filename">>)>>

\* C21: during startup the commands sent so far are a prefix of break-insert
\* (stepping breakpoint, -d, not -t), break-insert (startup breakpoint, -t),
\* gdb-set print elements 0, exec-continue, data-evaluate-expression filename,
\* and there is no engine state yet; when startup is over all five have been
\* sent in this order and the engine state has a breakpoint table with the
\* single entry "1" (internal, disabled, not temporary), status starting,
\* reason ok and last sequence number 0.
C21_StartupOrder ==
    /\ dpc \in StartupLabels =>
         /\ es = NoEngineState
         /\ Len(miLog) <= 5
         /\ miLog = SubSeq(StartupCommands, 1, Len(miLog))
    /\ dpc = "dial" =>
         /\ miLog = StartupCommands
         /\ DOMAIN es.Breakpoints = {"1"}
         /\ es.Breakpoints["1"].Id = "1"
         /\ es.Breakpoints["1"].Type = breakpointTypeInternal
         /\ es.Breakpoints["1"].State = breakpointStateDisabled
         /\ ~es.Breakpoints["1"].Temporary
         /\ es.Status = "starting"
         /\ es.Reason = "ok"
         /\ es.LastSequenceNum = 0

\* Startup is over and the engine state has been created.
C21_Witness ==
    /\ dpc = "dial" /\ proc = "running"
    /\ Len(miLog) = 5
    /\ gdb.pos = PosStartup
    /\ es.Status = "starting"

\* The deadline fires: the sleep of the deadline goroutine is over and its
\* select runs.
DeadlineFires == rrStart.timer = "sleep" /\ rrStart'.timer = "done"

\* C22: when the deadline fires and no line with "target extended-remote" has
\* been read (also when rr's output has ended), the process aborts; when such
\* a line has been read before, the deadline does not abort the process.
C22_DeadlineAbortsUnlessEndpointRead ==
    [][DeadlineFires => ((proc' = "fatal") = ~rrStart.seen)]_vars

\* C23: on a connection of the record listener every well-framed packet of
\* the engine is answered by exactly one "run -i <seq>" NUL, the seq of the
\* successive replies being 1, 2, 3, ...: no packet aborts the listener, the
\* i-th reply carries i, and once the listener has consumed what the engine
\* sent there are as many replies as packets.
C23_EveryPacketOneReply ==
    /\ recSession.lpc # "fatal"
    /\ \A i \in 1..Len(recSession.replies) :
          recSession.replies[i].cmd = runCommand(i)
    /\ Len(recSession.replies) <= recSession.pkts
    /\ (proc = "running" /\ recSession.lpc = "read" /\ recSession.wire = <<>>)
          => Len(recSession.replies) = recSession.pkts

\* C24: the reply of the record listener to a well-framed packet that
\* contains sequence number k is exactly "run -i <k+1>" NUL.
C24_ReplyIsNextSequenceNumber ==
    \A i \in 1..Len(recSession.replies) :
        recSession.replies[i].cmd
            = runCommand(TransactionId(recSession.replies[i].xml) + 1)

\* C25: when SIGINT arrives during record, the byte 0x03 is written to the pty
\* of the recording exactly once, later SIGINTs are not forwarded, the process
\* does not end before the recording process has terminated, and it then ends
\* with code 0 (a listener that aborted the process is left aside).
C25_CtrlCForwardedOnceThenCleanExit ==
    /\ recSession.pty <= 1
    /\ (recSession.sigints > 0 /\ proc # "running" /\ recSession.lpc # "fatal")
          => /\ recSession.rec # "running"
             /\ proc = "exited"
             /\ recSession.pty = 1

Framed == genCall.fn = "constructDbgpPacket" /\ genCall.pc \in {"return", "parsed"}

Parsed == genCall.fn = "constructDbgpPacket" /\ genCall.pc = "parsed"

\* The frame is a decimal numeral for len(header_xml) + len(x), a NUL, the
\* XML declaration header, x and a NUL.
FrameShape ==
    LET frame == genCall.out
        x == genCall.in
        nullAt == IndexByte(frame, NUL)
    IN /\ nullAt >= 1
       /\ ~AtoiBytes(SubSeq(frame, 1, nullAt)).err
       /\ AtoiBytes(SubSeq(frame, 1, nullAt)).n = Len(header_xml) + Len(x)
       /\ frame[1] # "0"
       /\ Len(frame) = nullAt + 1 + Len(header_xml) + Len(x) + 1
       /\ SubSeq(frame, nullAt + 2, nullAt + 1 + Len(header_xml)) = header_xml
       /\ SubSeq(frame, nullAt + 2 + Len(header_xml), Len(frame) - 1) = x
       /\ frame[Len(frame)] = NUL

\* C26: constructDbgpPacket(x) is the decimal length of header and x, a NUL,
\* the XML declaration header, x, a NUL; parsing the frame (the bytes between
\* the first and the final NUL, checked against the declared length) recovers
\* x with no bytes left over.
C26_ParseRecoversPayload ==
    /\ Framed => FrameShape
    /\ Parsed => /\ ~genCall.back.fatal
                 /\ genCall.back.bytesLeft = 0
                 /\ genCall.back.xml = genCall.in

\* C26, amended: the frame is as stated; the bytes between the first and the
\* final NUL are the XML declaration header followed by x, of exactly the
\* declared length, so that x is what follows the header.
C26_ParseRecoversHeaderAndPayload ==
    /\ Framed => FrameShape
    /\ Parsed => /\ ~genCall.back.fatal
                 /\ genCall.back.bytesLeft = 0
                 /\ genCall.back.xml = header_xml \o genCall.in

\* A payload with a NUL in it, and one that needs a length of three digits,
\* have been framed and parsed.
C26_Witness ==
    /\ Parsed
    /\ \/ NUL \in Range(genCall.in)
       \/ Len(genCall.in) + Len(header_xml) >= 100
    /\ genCall.back.bytesLeft = 0

\* The path a return line of the generated body names after its sentinel.
SentinelPath(line) ==
    SubSeq(line, IndexOfPiece(line, phpFilenameSentinel) + 2, Len(line) - 1)

\* The return lines of the body built for the call.
Leaves ==
    {i \in 1..Len(BodyLines(genCall.out)) :
        StatementKind(BodyLines(genCall.out)[i]) = "return"}

TreeBuilt == genCall.fn = "generateFileBreakBody" /\ genCall.pc \in {"built", "ran"}

TreeRan == genCall.fn = "generateFileBreakBody" /\ genCall.pc = "ran"

\* C27: for a non-empty strictly ascending sequence of hashes, the tree of
\* generateBreakHelper evaluated on a hash of the sequence reaches the leaf
\* whose sentinel names the path mapped to that hash; on any other hash it
\* reaches exactly one leaf; and the tree has exactly one leaf per hash.
C27_SearchReachesLeafOfHash ==
    /\ TreeRan =>
          /\ genCall.back.leaf \in Leaves
          /\ genCall.back.hash \in Range(genCall.in.ar) =>
                SentinelPath(BodyLines(genCall.out)[genCall.back.leaf])
                    = genCall.in.m[genCall.back.hash][1]
    /\ TreeBuilt =>
          /\ Cardinality(Leaves) = Len(genCall.in.ar)
          /\ \A h \in Range(genCall.in.ar) :
                Cardinality({i \in Leaves :
                                SentinelPath(BodyLines(genCall.out)[i])
                                    = genCall.in.m[h][1]}) = 1

\* A tree over seven hashes has been evaluated on its sixth hash, which lies
\* two levels down, and has reached a leaf.
C27_Witness ==
    /\ TreeRan
    /\ Len(genCall.in.ar) = MaxTreeHash
    /\ genCall.back.hash = genCall.in.ar[MaxTreeHash - 1]
    /\ genCall.back.leaf \in Leaves

LocMapRead == genCall.fn = "generateBreakFile" /\ genCall.pc = "read"

\* The values of the map are line numbers of the file, pairwise distinct, and
\* ascending in the order of the sentinel lines.
LocMapLines ==
    LET parsed == BreakpointLocEntries(genCall.out.file)
        bpLocMap == genCall.back
    IN /\ \A k \in DOMAIN bpLocMap : bpLocMap[k] \in 1..parsed.total
       /\ \A k1, k2 \in DOMAIN bpLocMap : k1 # k2 => bpLocMap[k1] # bpLocMap[k2]
       /\ \A i, j \in 1..Len(parsed.entries) :
             i < j => parsed.entries[i].lineno < parsed.entries[j].lineno

\* C28: for every non-empty set of script paths without a hash collision and
\* every max_stack_depth, constructBreakpointLocMap on the file written by
\* generateBreakFile yields a map whose keys are exactly "file://" + p for the
\* script paths p, and whose values are 1-based line numbers of the file,
\* pairwise distinct and ascending in the order of the sentinel lines.
C28_LocMapNamesEveryPath ==
    LocMapRead =>
        /\ DOMAIN genCall.back
              = {<<"file://">> \o p : p \in DOMAIN genCall.in.hashOf}
        /\ LocMapLines

\* The left fold h := 33 * h + c over the bytes of a string, from 5381, modulo
\* 256^digits, as a list of base-256 digits, lowest first.
RECURSIVE TimesAdd(_, _, _, _)
TimesAdd(d, k, factor, carry) ==
    IF k > Len(d) THEN <<>>
    ELSE <<(d[k] * factor + carry) % 256>>
         \o TimesAdd(d, k + 1, factor, (d[k] * factor + carry) \div 256)

RECURSIVE LeftFold(_, _, _)
LeftFold(h, str, n) ==
    IF n > Len(str) THEN h
    ELSE LeftFold(TimesAdd(h, 1, 33, str[n]), str, n + 1)

\* The published hash of a string: the fold with the highest bit forced to 1.
Published(str, digits) ==
    LET h == LeftFold([k \in 1..digits |-> IF k = 1 THEN 5 ELSE IF k = 2 THEN 21 ELSE 0],
                      str, 1)
    IN [h EXCEPT ![digits] = IF @ >= 128 THEN @ ELSE @ + 128]

\* The base-256 digits of a list of 16-bit limbs.
DigitsOfLimbs(h) ==
    [k \in 1..(2 * Len(h)) |->
        IF k % 2 = 1 THEN h[(k + 1) \div 2] % 256 ELSE h[k \div 2] \div 256]

Hashed == genCall.fn = "djbx33a" /\ genCall.pc \in {"return64", "return32"}

\* C29: djbx33a64(s), and djbx33a32(s) at width 32, is the left fold
\* h := 33 * h + byte over the bytes of s in order, from 5381, modulo 2^W, with
\* bit W-1 forced to 1; the loop over blocks of 8 and the tail loop read every
\* byte exactly once and read nothing past the end of s.
C29_HashIsLeftFold ==
    Hashed =>
        /\ DigitsOfLimbs(genCall.out.hash)
              = Published(genCall.in, IF genCall.pc = "return64" THEN 8 ELSE 4)
        /\ genCall.out.reads = [n \in 1..Len(genCall.in) |-> n - 1]
        /\ ~genCall.out.panic

\* The longest string, two blocks of 8 and a tail, has been hashed at width
\* 64; its fold has left 64 bits.
C29_Witness ==
    /\ genCall.fn = "djbx33a"
    /\ genCall.pc = "return64"
    /\ Len(genCall.in) = MaxLongStr
    /\ Len(genCall.out.reads) = MaxLongStr

\* C30: when a step_into has produced its reply, every breakpoint that was
\* enabled before it is enabled again, in the table and in gdb.
C30_StepIntoRestoresBreakpoints ==
    (dpc = "write" /\ req.Command = "step_into")
        => /\ dloc.preTable \subseteq EnabledInTable
           /\ dloc.preGdb \subseteq EnabledInGdb

\* C31: when the reply of a DBGP command is ready, every breakpoint of the
\* table is enabled in the table exactly when the gdb breakpoint of the same
\* id is enabled (a break-enable or break-disable that names no breakpoint
\* acts on every gdb breakpoint).
C31_TableStateMatchesGdb ==
    (dpc = "write")
        => \A id \in DOMAIN es.Breakpoints :
              (es.Breakpoints[id].State = breakpointStateEnabled)
                  = (id \in EnabledInGdb)

\* C32: during record the byte 0x03 is written to the pseudo-TTY of the
\* interpreter only if the process received a SIGINT; when the recording ends
\* by itself and doRecordSession returns, no 0x03 is written.
C32_CtrlCByteOnlyAfterSigint ==
    recSession.pty > 0 => recSession.sigints > 0

\* C33: no DBGP command changes Status or Reason: the engine state, once
\* constructed, holds "starting" and "ok" in every reachable state, and every
\* status reply reports them, also after a step reply that carried "break".
C33_StatusStaysStartingOk ==
    /\ es # NoEngineState => es.Status = statusStarting /\ es.Reason = reasonOk
    /\ (dpc = "write" /\ req.Command = "status")
          => payload.status = "starting" /\ payload.reason = "ok"

\* The reply of a status request is ready, and a reply of a step with status
\* "break" was written before it.
C33_Witness ==
    /\ dpc = "write" /\ proc = "running"
    /\ req.Command = "status"
    /\ payload.status = "starting" /\ payload.reason = "ok"
    /\ hist.broke

====
